---------------------------- MODULE Spec2Model ----------------------------
(***************************************************************************)
(* A state-machine model of kapi (github.com/comradequinn/kapi): the        *)
(* Cluster lifecycle (NewCluster, AddReconciler, AddHook, Connect), the     *)
(* typed Client (ClientFor, Create, Update, Delete, Get, List) and the      *)
(* reconciler that the controller framework drives (event predicate,        *)
(* work queue, Reconcile).                                                  *)
(*                                                                          *)
(* The controller framework and the API server are external to kapi.  They  *)
(* are modelled by what kapi relies on: an object store, an informer cache  *)
(* fed by a FIFO of watch events, one de-duplicating work queue per         *)
(* controller, and a manager that is started once and then stopped.         *)
(* Calls into them that can fail take a nondeterministic outcome.           *)
(*                                                                          *)
(* Connect is modelled statement by statement, per calling goroutine,       *)
(* because Cluster.connected is read and written without synchronisation;   *)
(* every other kapi entry point is one atomic action.                       *)
(***************************************************************************)
EXTENDS Integers, Sequences, FiniteSets, TLC

(***************************************************************************)
(* Bounds of the model.                                                     *)
(***************************************************************************)
\* goroutines that may call Cluster.Connect (each calls it at most once)
NumProcs == 2
\* reconcilers that AddReconciler may register
MaxRecs == 1
\* hooks that AddHook may register
MaxHooks == 1
\* clients that application code derives with ClientFor
MaxClients == 1
\* watch events in flight between the API server and the informer
MaxWatch == 2
\* successful writes to the object store
MaxWrites == 3
\* subresource names passed to one Client.Update call
MaxSubs == 2
\* heap cells the envelopes of the model may refer to
MaxCells == 6
\* sinks derived from the logger with WithValues and WithName
MaxWrappers == 5
\* namespaces in the ClusterConfig given to NewCluster
MaxNamespaces == 2

Procs == 1 .. NumProcs

(***************************************************************************)
(* Program constants.                                                       *)
(***************************************************************************)
\* reconciler.go:42-44
ResourceEventTypeCreated == 0
ResourceEventTypeUpdated == 1
ResourceEventTypeDeleted == 2
ResourceEventTypes ==
    {ResourceEventTypeCreated, ResourceEventTypeUpdated, ResourceEventTypeDeleted}

\* reconciler.go:48-49
ReconcileEventTypeCreatedOrUpdated == 0
ReconcileEventTypeDeleted == 1

\* log levels as kapi passes them to obs.LogFunc
LevelError == 0
LevelSummary == 1
LevelTrace == 3

\* client.go:25-26
SubresourceStatus == "status"
SubresourceScale == "scale"
Subresources == {SubresourceStatus, SubresourceScale}

(***************************************************************************)
(* The objects of the one resource type the model registers.  An object    *)
(* has a namespace and a name (its key), a payload (data) and a status      *)
(* subresource; the type has no scale subresource.                          *)
(***************************************************************************)
TestNamespace == "kapi-test"
Names == {"test-data", "other"}
Keys == {<<TestNamespace, n>> : n \in Names}
KeySeq == <<<<TestNamespace, "test-data">>, <<TestNamespace, "other">>>>
Data == {"", "x"}

Absent == [exists |-> FALSE, data |-> "", status |-> ""]
Obj(d, s) == [exists |-> TRUE, data |-> d, status |-> s]

\* a resource as kapi hands it to callbacks and returns it from Get
Resource(k, o) == [ns |-> k[1], name |-> k[2], data |-> o.data, status |-> o.status]
\* reflect.New(c.resourceType): a freshly allocated zero value
ZeroResource == [ns |-> "", name |-> "", data |-> "", status |-> ""]

VARIABLES
    connected,    \* Cluster.connected
    pc,           \* per goroutine: where its Connect call is
    startCount,   \* how often manager.Start has been invoked
    mgr,          \* the manager: "idle", "running", "stopped" (its Start
                  \*   returned nil) or "failed" (its Start returned an error)
    cancelled,    \* whether the context given to Connect is cancelled
    everSet,      \* history: some Connect call has executed connected = true
    raced,        \* history: a Connect call checked the flag while another
                  \*   call was between its own check and its assignment
    recs,         \* the reconcilers registered with the manager, in order
    hooks,        \* the hooks registered with the manager, in order
    clients,      \* the Clients application code has derived
    store,        \* the API server's objects, by key
    cache,        \* the informer cache's objects, by key
    watch,        \* watch events not yet delivered to the informer
    queue,        \* per reconciler: the keys in its work queue
    admitted,     \* history, per reconciler: keys of the events for which
                  \*   the reconciler's filter returned true
    cbKeys,       \* history, per reconciler: keys of the requests whose
                  \*   Reconcile invoked the callback
    nwrites,      \* successful store writes so far
    last,         \* history: the most recent kapi call and what it did
    obs,          \* the package variable obs: the observability contract
    logger,       \* the logger most recently handed to ctrl.SetLogger
    cells,        \* the heap: what each map, pointee and slice element holds
    envs,         \* three envelope variables: an original and two copies
    wrappers,     \* the LogrWrappers derived so far, in order of derivation
    arrays,       \* the backing arrays of the wrappers' attrs slices
    connectTrail, \* per goroutine: the timers and log lines its Connect call
                  \*   has emitted so far, in order
    updating,     \* the Client.Update call that is inside its loop over the
                  \*   subresource names, as far as it got; Idle when none
    running       \* per reconciler: the Reconcile call in progress, as far as
                  \*   it got; Idle when none

vars == <<connected, pc, startCount, mgr, cancelled, everSet, raced, recs, hooks,
          clients, store, cache, watch, queue, admitted, cbKeys, nwrites, last,
          obs, logger, cells, envs, wrappers, arrays, connectTrail, updating,
          running>>

\* the state of the process outside the Cluster
global == <<obs, logger, cells, envs, wrappers, arrays, connectTrail, updating,
            running>>


(***************************************************************************)
(* What a kapi call leaves behind for the properties to read: the call,     *)
(* what it read, whether it panicked, what it returned, the store requests  *)
(* it issued and the log lines and timers it emitted, in order.             *)
(***************************************************************************)
NoClient == [cache |-> FALSE, pre |-> FALSE]
NoKey == <<"", "">>
\* what a Client operation remembers of the operation the same Client
\* completed just before it: the operation, its key, the payload it wrote,
\* whether it was a full-object write, its error, and n, the length of the
\* list a List returned (handed on by a Get or Delete that follows the List)
NoBrief == [op |-> "none", key |-> NoKey, data |-> "", full |-> TRUE,
            err |-> "nil", n |-> -1]
(***************************************************************************)
(* The observability contract (kapi.go:71-88).  A function or context is    *)
(* named by a string and "nil" is the nil value; a log function also says   *)
(* whether it is wrapped by the closure of kapi.go:82-84, which appends the  *)
(* pair "lib", "kapi" to the attributes.                                     *)
(***************************************************************************)
NilLogFunc == [fn |-> "nil", lib |-> FALSE]
\* a nil pointer, map, slice or interface value
Nil == "<nil>"
\* a nil slice: no backing array, length and capacity zero
NilSlice == [arr |-> 0, len |-> 0, cap |-> 0]
\* the zero value of the package variable obs
NoObs ==
    [BackgroundContext |-> "nil", LogFunc |-> NilLogFunc,
     MetricTimerFunc |-> "nil", NewCorrelationCtx |-> "nil"]
\* no logger was handed to the framework
NoLogger == [ctx |-> "nil", lf |-> NilLogFunc, dep |-> FALSE, attrs |-> NilSlice]

\* the ObservabilityConfigs application code passes to Init: every field
\* nil or set, and two different log functions
ObservabilityConfigs ==
    [BackgroundContext : {"nil", "ctx"},
     LogFunc : {[fn |-> f, lib |-> FALSE] : f \in {"nil", "logA", "logB"}},
     MetricTimerFunc : {"nil", "timer"},
     NewCorrelationCtx : {"nil", "newCtx"}]

\* the test suite's ObservabilityConfig
TestObservabilityConfig ==
    [BackgroundContext |-> "ctx", LogFunc |-> [fn |-> "logA", lib |-> FALSE],
     MetricTimerFunc |-> "timer", NewCorrelationCtx |-> "newCtx"]

\* variant: only the log function is checked
InitPanics_LogFuncOnly(cfg) == cfg.LogFunc.fn = "nil"

\* kapi.go:77-79
InitPanics(cfg) ==
    \/ cfg.LogFunc.fn = "nil"
    \/ cfg.MetricTimerFunc = "nil"
    \/ cfg.NewCorrelationCtx = "nil"
    \/ cfg.BackgroundContext = "nil"

\* kapi.go:81-86: the contract Init stores, its log function wrapped
StoredContract(cfg) == [cfg EXCEPT !.LogFunc = [@ EXCEPT !.lib = TRUE]]

\* logconv.NewLogrWrapper (logconv.go:20-29): a sink on ctx whose log
\* function appends the pair "dep", "ctrl-runtime" and calls logFunc; its
\* attrs are left nil
NewLogrWrapper(ctx, logFunc) ==
    [ctx |-> ctx, lf |-> logFunc, dep |-> TRUE, attrs |-> NilSlice]

\* the capacity append gives the array it allocates when newLen elements do
\* not fit in oldCap: the needed length if that is more than double the old
\* capacity, double the old capacity otherwise (arrays of fewer than 256
\* elements; for elements of interface type every capacity up to 16 is an
\* allocation size)
NewCap(oldCap, newLen) == IF newLen > 2 * oldCap THEN newLen ELSE 2 * oldCap

\* the elements a slice shows of its backing array
Elements(arrs, sl) == IF sl.arr = 0 THEN <<>> ELSE SubSeq(arrs[sl.arr], 1, sl.len)

\* append(sl, attr...) (logconv.go:56): the elements are written behind the
\* slice's own in its backing array when the capacity allows, and into a new
\* array holding a copy of the slice's elements otherwise
AppendSlice(arrs, sl, attr) ==
    LET newLen == sl.len + Len(attr)
    IN  IF attr = <<>> THEN [slice |-> sl, arrays |-> arrs]
        ELSE IF newLen <= sl.cap
        THEN [slice |-> [sl EXCEPT !.len = newLen],
              arrays |-> [arrs EXCEPT ![sl.arr] =
                             [x \in 1 .. sl.cap |->
                                 IF x > sl.len /\ x <= newLen
                                 THEN attr[x - sl.len] ELSE @[x]]]]
        ELSE LET c == NewCap(sl.cap, newLen)
                 held == Elements(arrs, sl) \o attr
             IN  [slice |-> [arr |-> Len(arrs) + 1, len |-> newLen, cap |-> c],
                  arrays |-> Append(arrs, [x \in 1 .. c |->
                                 IF x <= newLen THEN held[x] ELSE Nil])]

\* what the log function given to Init receives from a call l.lf(ctx, level,
\* msg, attr...): the closure of logconv.go:21-23 appends "dep",
\* "ctrl-runtime" and the closure of kapi.go:82-84 appends "lib", "kapi"
Received(l, attr) ==
    attr \o (IF l.dep THEN <<"dep", "ctrl-runtime">> ELSE <<>>)
         \o (IF l.lf.lib THEN <<"lib", "kapi">> ELSE <<>>)

\* the leader-election part of a ClusterConfig (kapi.go:43-46, 51-60) and of
\* the manager.Options built from it (kapi.go:157-159), at their zero values
NoConfig == [Enabled |-> FALSE, LockResource |-> "", Namespace |-> "",
             Namespaces |-> <<>>, Kinds |-> 0]
NoOptions == [LeaderElection |-> FALSE, LeaderElectionID |-> "",
              LeaderElectionNamespace |-> ""]
\* no Update call is inside its loop (client.go:56-60), no Reconcile call
\* is in progress (reconciler.go:112)
Idle == [op |-> "none"]

NoCall ==
    [op |-> "none", panic |-> FALSE, err |-> "nil", conn |-> FALSE,
     mgrAt |-> "idle", starting |-> FALSE, priorSet |-> FALSE, startBefore |-> 0,
     nrecs |-> 0, nhooks |-> 0, nclients |-> 0, fwOk |-> TRUE,
     client |-> NoClient, key |-> NoKey, trail |-> <<>>,
     result |-> ZeroResource, items |-> <<>>, shown |-> <<>>,
     rec |-> 0, fetch |-> "none", evt |-> -1, cb |-> 0, cbErr |-> FALSE,
     res |-> ZeroResource, requeue |-> FALSE,
     data |-> "", status |-> "", subs |-> <<>>, failAt |-> 0,
     hook |-> 0, set |-> FALSE, obj |-> ZeroResource, okNew |-> TRUE,
     okOld |-> TRUE, warnings |-> <<>>, before |-> NoBrief,
     cfg |-> NoConfig, opts |-> NoOptions, built |-> FALSE,
     obsCfg |-> NoObs, obsAt |-> NoObs, loggerAt |-> NoLogger,
     target |-> 0, attr |-> <<>>, level |-> -1, received |-> <<>>,
     at |-> 0]

\* the state every call starts from
Call(o) ==
    [NoCall EXCEPT !.op = o, !.conn = connected, !.mgrAt = mgr,
                   !.starting = (\E g \in Procs : pc[g] = "start"),
                   !.priorSet = everSet, !.startBefore = startCount,
                   !.nrecs = Len(recs), !.nhooks = Len(hooks),
                   !.nclients = Cardinality(clients)]

\* the preceding operations that operation op of a direct Client remembers:
\* successful ones, and a Get that found nothing
Remembered ==
    [Get |-> {"Create", "Update", "List"}, List |-> {"Create", "Delete", "Get"},
     Delete |-> {"List"}]
Brief(op, c) ==
    IF /\ ~c.cache /\ last.client = c /\ ~last.panic
       /\ last.op \in Remembered[op]
       /\ last.err = (IF last.op = "Get" THEN "notfound" ELSE "nil")
    THEN [op |-> last.op, key |-> last.key, data |-> last.data,
          full |-> (last.subs = <<>>), err |-> last.err,
          n |-> IF last.op = "List" THEN Len(last.items)
                ELSE IF last.op \in {"Get", "Delete"} /\ last.before.op = "List"
                THEN last.before.n
                ELSE -1]
    ELSE NoBrief

\* entries of a call's trail
\* rtype and act are the resource_type and resource_action attributes of a
\* log line or a recorded metric, where the model tracks them
Log(level, tag) ==
    [k |-> "log", level |-> level, tag |-> tag, sub |-> "", rtype |-> "", act |-> ""]
TimerStart(metric) ==
    [k |-> "timerStart", level |-> -1, tag |-> metric, sub |-> "", rtype |-> "",
     act |-> ""]
\* the function a timer returned is called: the metric is recorded
TimerStop(metric) ==
    [k |-> "timerStop", level |-> -1, tag |-> metric, sub |-> "", rtype |-> "",
     act |-> ""]
Labelled(e, labels) == [e EXCEPT !.rtype = labels.rtype, !.act = labels.act]
\* a request to the low-level client: the verb and, for a subresource-scoped
\* update, the subresource
Request(verb, sub) ==
    [k |-> "request", level |-> -1, tag |-> verb, sub |-> sub, rtype |-> "",
     act |-> ""]
Callback(name) ==
    [k |-> "callback", level |-> -1, tag |-> name, sub |-> "", rtype |-> "",
     act |-> ""]
IsRequest(e) == e.k = "request"
Requests(t) == SelectSeq(t, IsRequest)

(***************************************************************************)
(* NewCluster (kapi.go:168-170) returns a Cluster holding the manager; the  *)
(* connected field is left at its zero value.                               *)
(***************************************************************************)
\* variant: NewCluster marks the Cluster connected
NewClusterConnected_True == TRUE

NewClusterConnected == FALSE

\* the ClusterConfigs application code passes to NewCluster: the test
\* suite's lock resource or none, an explicit leader-election namespace or
\* none, up to MaxNamespaces namespaces, and no kind mapping or the test
\* suite's two
ClusterConfigs ==
    [Enabled : BOOLEAN,
     LockResource : {"", "kapi-test-leader-election-lock"},
     Namespace : {"", "kube-system"},
     Namespaces : UNION {[1 .. n -> {"kapi-test", "default"}] : n \in 0 .. MaxNamespaces},
     Kinds : {0, 2}]

\* kapi.go:101-112: which of the two panics the leader-election checks raise
LeaderElectionPanic(cfg) ==
    IF ~cfg.Enabled THEN "none"
    ELSE IF cfg.LockResource = "" THEN "leader-election-resource"
    ELSE IF cfg.Namespace = "" /\ Len(cfg.Namespaces) = 0 THEN "namespace"
    ELSE "none"

\* variant: the first configured namespace replaces an explicit
\* leader-election namespace
LeaderElectionNamespace_Override(cfg) ==
    IF cfg.Enabled /\ Len(cfg.Namespaces) > 0 THEN cfg.Namespaces[1]
    ELSE cfg.Namespace

\* kapi.go:101, 106-111: cfg.LeaderElection.Namespace after the checks
LeaderElectionNamespace(cfg) ==
    IF cfg.Enabled /\ cfg.Namespace = "" /\ Len(cfg.Namespaces) > 0
    THEN cfg.Namespaces[1]
    ELSE cfg.Namespace

\* kapi.go:157-159: the leader-election fields of the manager's options
ManagerOptions(cfg) ==
    [LeaderElection |-> cfg.Enabled,
     LeaderElectionID |-> cfg.LockResource,
     LeaderElectionNamespace |-> LeaderElectionNamespace(cfg)]

(***************************************************************************)
(* The filters application code passes to AddReconciler:                    *)
(*   "nil"             no filter                                            *)
(*   "createdTestData" the test suite's filter: created events of the       *)
(*                     object named "test-data"                             *)
(*   "dataX"           a filter that inspects content: objects whose        *)
(*                     payload is "x"                                       *)
(***************************************************************************)
Filters == {"nil", "createdTestData", "dataX"}

\* the hooks application code passes to AddHook, by the callbacks they set
HookKinds == {"none", "validateCreate"}

(***************************************************************************)
(* The Resource Envelope (client.go:167-239): CustomResource and            *)
(* CustomResourceList in memory.  An envelope variable holds nil or a       *)
(* struct; the struct's maps, pointers and slices refer to cells of the     *)
(* heap, and 0 is the nil reference.  A payload field (spec, status, scale) *)
(* is of one of four kinds:                                                 *)
(*   "undefined"  FieldUndefined, a nil *struct{}                           *)
(*   "string"     a struct with a string field, as TestResourceSpec         *)
(*   "pointer"    a pointer to such a struct                                *)
(*   "number"     a struct with a float64 field                             *)
(***************************************************************************)
CellFree == "<free>"

PayloadFields == {"spec", "status", "scale"}

\* a payload field in memory: its kind, its value when the struct holds it,
\* its reference when it is a pointer; Undefined is the nil FieldUndefined
Undefined == [kind |-> "undefined", val |-> "", ref |-> 0]

\* a nil envelope pointer
NilEnvelope ==
    [nil |-> TRUE, list |-> FALSE, name |-> "", labels |-> 0,
     spec |-> Undefined, status |-> Undefined, scale |-> Undefined, items |-> 0]

\* the concrete type of an envelope: list or not, and the kinds its type
\* parameters give the payload fields
TypeOf(e) ==
    [list |-> e.list, spec |-> e.spec.kind, status |-> e.status.kind,
     scale |-> e.scale.kind]

\* what a reference leads to
Deref(heap, ref) == IF ref = 0 THEN Nil ELSE heap[ref]

\* the value of an envelope: its fields with every reference followed
ValueOfPayload(heap, f) ==
    [kind |-> f.kind,
     val |-> IF f.kind = "pointer" THEN Deref(heap, f.ref) ELSE f.val]
ValueOf(heap, e) ==
    [nil |-> e.nil, list |-> e.list, name |-> e.name,
     labels |-> Deref(heap, e.labels),
     spec |-> ValueOfPayload(heap, e.spec),
     status |-> ValueOfPayload(heap, e.status),
     scale |-> ValueOfPayload(heap, e.scale),
     items |-> Deref(heap, e.items)]

\* a member of the JSON document of an envelope: left out, null, or an
\* object or array that holds a string or a number
Omitted == [t |-> "absent", st |-> "", v |-> ""]

\* json.Marshal of a payload field, tagged omitempty (client.go:200-202): a
\* nil pointer is left out, a struct is an object
MarshalPayload(pv) ==
    CASE pv.kind = "undefined" -> Omitted
      [] pv.kind = "string" -> [t |-> "object", st |-> "string", v |-> pv.val]
      [] pv.kind = "pointer" ->
            IF pv.val = Nil THEN Omitted ELSE [t |-> "object", st |-> "string", v |-> pv.val]
      [] pv.kind = "number" -> [t |-> "object", st |-> "number", v |-> pv.val]

\* json.Marshal refuses a float that is not a number
MarshalFails(v) ==
    \E f \in PayloadFields : v[f].kind = "number" /\ v[f].val = "NaN"

\* json.Marshal of an envelope (client.go:221, 235): the bytes and the
\* error; empty names and nil maps are left out (omitempty), a nil Items
\* slice is null (client.go:209)
Marshal(v) ==
    IF MarshalFails(v)
    THEN [err |-> TRUE,
          doc |-> [m \in {"name", "labels", "items"} \cup PayloadFields |-> Omitted]]
    ELSE [err |-> FALSE,
          doc |->
            IF v.list
            THEN [name |-> Omitted, labels |-> Omitted, spec |-> Omitted,
                  status |-> Omitted, scale |-> Omitted,
                  items |-> IF v.items = Nil THEN [t |-> "null", st |-> "", v |-> ""]
                            ELSE [t |-> "array", st |-> "string", v |-> v.items]]
            ELSE [name |-> IF v.name = "" THEN Omitted
                           ELSE [t |-> "string", st |-> "string", v |-> v.name],
                  labels |-> IF v.labels = Nil THEN Omitted
                             ELSE [t |-> "object", st |-> "string", v |-> v.labels],
                  spec |-> MarshalPayload(v.spec),
                  status |-> MarshalPayload(v.status),
                  scale |-> MarshalPayload(v.scale),
                  items |-> Omitted]]

\* json.Unmarshal of a member into a payload field of a kind: a member that
\* is left out leaves the zero value
UnmarshalPayload(m, kind) ==
    IF m.t = "object" /\ kind # "undefined"
    THEN [kind |-> kind, val |-> m.v]
    ELSE [kind |-> kind,
          val |-> CASE kind = "pointer" -> Nil
                    [] kind = "number" -> "0"
                    [] OTHER -> ""]

\* json.Unmarshal(b, out) (client.go:222, 236) into a fresh zero value of
\* type t; it fails on the empty bytes of a failed Marshal and leaves out
\* as it was
Unmarshal(b, t) ==
    LET doc == b.doc
    IN  [nil |-> FALSE, list |-> t.list,
         name |-> IF doc.name.t = "string" THEN doc.name.v ELSE "",
         labels |-> IF doc.labels.t = "object" THEN doc.labels.v ELSE Nil,
         spec |-> UnmarshalPayload(doc.spec, t.spec),
         status |-> UnmarshalPayload(doc.status, t.status),
         scale |-> UnmarshalPayload(doc.scale, t.scale),
         items |-> IF doc.items.t = "array" THEN doc.items.v ELSE Nil]

\* allocate the first free cell for x unless x is nil: the reference and
\* the heap
Alloc(heap, x) ==
    LET fresh == CHOOSE a \in 1 .. MaxCells :
                     /\ heap[a] = CellFree
                     /\ \A b \in 1 .. a - 1 : heap[b] # CellFree
    IN  IF x = Nil THEN [ref |-> 0, heap |-> heap]
        ELSE [ref |-> fresh, heap |-> [heap EXCEPT ![fresh] = x]]

\* build in memory an envelope of value v: every map, pointee and slice of
\* it is newly allocated
Build(heap, v) ==
    LET PayloadOf(pv, ref) ==
            [kind |-> pv.kind, val |-> IF pv.kind = "pointer" THEN "" ELSE pv.val,
             ref |-> ref]
        a1 == Alloc(heap, v.labels)
        a2 == Alloc(a1.heap, IF v.spec.kind = "pointer" THEN v.spec.val ELSE Nil)
        a3 == Alloc(a2.heap, IF v.status.kind = "pointer" THEN v.status.val ELSE Nil)
        a4 == Alloc(a3.heap, IF v.scale.kind = "pointer" THEN v.scale.val ELSE Nil)
        a5 == Alloc(a4.heap, v.items)
    IN  [env |-> [nil |-> FALSE, list |-> v.list, name |-> v.name,
                  labels |-> a1.ref,
                  spec |-> PayloadOf(v.spec, a2.ref),
                  status |-> PayloadOf(v.status, a3.ref),
                  scale |-> PayloadOf(v.scale, a4.ref),
                  items |-> a5.ref],
         heap |-> a5.heap]

\* variant: the copy is the struct copied by assignment, sharing every map,
\* pointee and slice with the original
DeepCopyObject_Shallow(heap, e) == [env |-> e, heap |-> heap]

\* DeepCopyObject (client.go:213-239): nil for a nil envelope; else a fresh
\* zero value of the envelope's type, filled by unmarshalling the marshalled
\* envelope, both errors dropped
DeepCopyObject(heap, e) ==
    IF e.nil THEN [env |-> NilEnvelope, heap |-> heap]
    ELSE Build(heap, Unmarshal(Marshal(ValueOf(heap, e)), TypeOf(e)))

\* no envelope has been built
NoEnvelopes ==
    /\ cells = [a \in 1 .. MaxCells |-> CellFree]
    /\ envs = [i \in 1 .. 3 |-> NilEnvelope]
    /\ wrappers = <<>>
    /\ arrays = <<>>
    /\ updating = Idle
    /\ running = [i \in 1 .. MaxRecs |-> Idle]

\* the process after Init was called with the test suite's contract
Initialised ==
    /\ obs = StoredContract(TestObservabilityConfig)
    /\ logger = NewLogrWrapper(TestObservabilityConfig.BackgroundContext,
                               StoredContract(TestObservabilityConfig).LogFunc)
    /\ NoEnvelopes

Init ==
    /\ connected = NewClusterConnected
    /\ pc = [g \in Procs |-> "idle"]
    /\ connectTrail = [g \in Procs |-> <<>>]
    /\ startCount = 0
    /\ mgr = "idle"
    /\ cancelled = FALSE
    /\ everSet = FALSE
    /\ raced = FALSE
    /\ recs = <<>>
    /\ hooks = <<>>
    /\ clients = {}
    /\ store = [k \in Keys |-> Absent]
    /\ cache = [k \in Keys |-> Absent]
    /\ watch = <<>>
    /\ queue = <<>>
    /\ admitted = <<>>
    /\ cbKeys = <<>>
    /\ nwrites = 0
    /\ last = NoCall
    /\ Initialised

(***************************************************************************)
(* AddReconciler (reconciler.go:59-110).                                    *)
(***************************************************************************)
\* variant: the guard of reconciler.go:60-62 is missing
AddReconcilerPanics_NoGuard == FALSE

\* reconciler.go:60-62
AddReconcilerPanics == connected

\* fwOk: whether the framework's Complete accepts the controller
AddReconciler(f, fwOk) ==
    /\ AddReconcilerPanics \/ ~fwOk \/ Len(recs) < MaxRecs
    /\ IF AddReconcilerPanics
       THEN /\ last' = [Call("AddReconciler") EXCEPT !.panic = TRUE, !.fwOk = fwOk]
            /\ UNCHANGED <<recs, queue, admitted, cbKeys>>
       ELSE LET trail0 == <<TimerStart("kapi_add_reconciler"),
                            Log(LevelTrace, "creating kapi.reconciler"),
                            Log(LevelTrace, "creating kapi.client")>>
            IN  IF fwOk
                THEN /\ recs' = Append(recs, [filter |-> f])
                     /\ queue' = Append(queue, {})
                     /\ admitted' = Append(admitted, {})
                     /\ cbKeys' = Append(cbKeys, {})
                     /\ last' = [Call("AddReconciler") EXCEPT
                                   !.fwOk = fwOk,
                                   !.trail = trail0 \o
                                       <<Log(LevelTrace, "configured kapi.reconciler"),
                                         TimerStop("kapi_add_reconciler")>>]
                ELSE /\ UNCHANGED <<recs, queue, admitted, cbKeys>>
                     /\ last' = [Call("AddReconciler") EXCEPT
                                   !.fwOk = fwOk, !.err = "wrapped",
                                   !.trail = trail0 \o
                                       <<TimerStop("kapi_add_reconciler")>>]
    /\ UNCHANGED <<connected, global, pc, startCount, mgr, cancelled, everSet, raced,
                   hooks, clients, store, cache, watch, nwrites>>

(***************************************************************************)
(* AddHook (hook.go:32-51).  The result of the webhook builder's Complete   *)
(* is discarded and the call returns nil.                                   *)
(***************************************************************************)
\* hook.go:33-35
AddHookPanics == connected

\* fwOk: whether the framework's Complete accepts the webhook
AddHook(h, fwOk) ==
    /\ AddHookPanics \/ ~fwOk \/ Len(hooks) < MaxHooks
    /\ IF AddHookPanics
       THEN /\ last' = [Call("AddHook") EXCEPT !.panic = TRUE, !.fwOk = fwOk]
            /\ UNCHANGED hooks
       ELSE /\ hooks' = IF fwOk THEN Append(hooks, h) ELSE hooks
            /\ last' = [Call("AddHook") EXCEPT
                          !.fwOk = fwOk,
                          !.trail = <<TimerStart("kapi_add_hook"),
                                      Log(LevelTrace, "creating kapi.hook"),
                                      TimerStop("kapi_add_hook")>>]
    /\ UNCHANGED <<connected, global, pc, startCount, mgr, cancelled, everSet, raced,
                   recs, clients, store, cache, watch, queue, admitted, cbKeys,
                   nwrites>>

(***************************************************************************)
(* Cluster.Connect (kapi.go:174-190), one goroutine's call:                 *)
(*   "idle"     not called yet                                              *)
(*   "set"      passed the check of line 177, before line 181               *)
(*   "start"    executed line 181, before manager.Start of line 185         *)
(*   "blocking" inside manager.Start                                        *)
(*   "retNil", "retErr", "panicked"  how the call ended                     *)
(***************************************************************************)
\* variant: the guard of kapi.go:177-179 is missing
ConnectPanics_NoGuard == FALSE

\* kapi.go:177-179
ConnectPanics == connected

\* what a Connect call that is inside manager.Start has emitted
\* (kapi.go:175, 183)
InsideStart ==
    <<TimerStart("kapi_connect"), Log(LevelTrace, "connecting k8s.cluster")>>

ConnectCall(g) ==
    /\ pc[g] = "idle"
    /\ IF ConnectPanics
       THEN /\ pc' = [pc EXCEPT ![g] = "panicked"]
            /\ connectTrail' = [connectTrail EXCEPT
                                  ![g] = <<TimerStart("kapi_connect"),
                                           TimerStop("kapi_connect")>>]
            /\ last' = [Call("Connect") EXCEPT
                          !.panic = TRUE, !.trail = connectTrail'[g]]
       ELSE /\ pc' = [pc EXCEPT ![g] = "set"]
            /\ connectTrail' = [connectTrail EXCEPT
                                  ![g] = <<TimerStart("kapi_connect")>>]
            /\ last' = [Call("Connect") EXCEPT !.trail = connectTrail'[g]]
    /\ raced' = (raced \/ \E h \in Procs \ {g} : pc[h] = "set")
    /\ UNCHANGED <<connected, obs, logger, cells, envs, wrappers, arrays, updating, running, startCount, mgr, cancelled, everSet, recs, hooks,
                   clients, store, cache, watch, queue, admitted, cbKeys, nwrites>>

\* kapi.go:181-183: the flag is set and the call logs that it connects
ConnectSet(g) ==
    /\ pc[g] = "set"
    /\ connected' = TRUE
    /\ everSet' = TRUE
    /\ pc' = [pc EXCEPT ![g] = "start"]
    /\ connectTrail' = [connectTrail EXCEPT
                          ![g] = Append(@, Log(LevelTrace, "connecting k8s.cluster"))]
    /\ UNCHANGED <<obs, logger, cells, envs, wrappers, arrays, updating, running, startCount, mgr, cancelled, raced, recs, hooks, clients, store,
                   cache, watch, queue, admitted, cbKeys, nwrites, last>>

\* the informer's initial list: a created event per object in the store
RECURSIVE InitialEvents(_)
InitialEvents(ks) ==
    IF ks = <<>> THEN <<>>
    ELSE LET k == Head(ks)
         IN  (IF store[k].exists
              THEN <<[et |-> ResourceEventTypeCreated, key |-> k,
                      old |-> Absent, new |-> store[k]]>>
              ELSE <<>>) \o InitialEvents(Tail(ks))

\* variant: Connect drops the error of manager.Start and returns nil
ConnectResult_Swallowed(startErr) == "nil"

\* kapi.go:185-189: the error Connect returns, given whether manager.Start
\* returned one
ConnectResult(startErr) == IF startErr THEN "wrapped" ELSE "nil"

\* where a Connect call is once it has returned
Returned(startErr) == IF ConnectResult(startErr) = "nil" THEN "retNil" ELSE "retErr"

\* kapi.go:185: manager.Start is invoked.  A manager starts once: it lists
\* the store into its cache and begins to watch; a second Start on the same
\* manager returns an error at once, Connect returns the wrapped error and
\* the deferred call of kapi.go:175 stops the timer.
ConnectStart(g) ==
    /\ pc[g] = "start"
    /\ startCount' = startCount + 1
    /\ IF mgr = "idle"
       THEN /\ mgr' = "running"
            /\ cache' = store
            /\ watch' = InitialEvents(KeySeq)
            /\ pc' = [pc EXCEPT ![g] = "blocking"]
            /\ UNCHANGED connectTrail
       ELSE /\ pc' = [pc EXCEPT ![g] = Returned(TRUE)]
            /\ connectTrail' = [connectTrail EXCEPT
                                  ![g] = Append(@, TimerStop("kapi_connect"))]
            /\ UNCHANGED <<mgr, cache, watch>>
    /\ UNCHANGED <<connected, obs, logger, cells, envs, wrappers, arrays, updating, running, cancelled, everSet, raced, recs, hooks, clients,
                   store, queue, admitted, cbKeys, nwrites, last>>

\* variant: a failed Start clears the flag so that Connect can be retried
ConnectedOnReturn_Reset(err) == IF err THEN FALSE ELSE connected

\* kapi.go:185-189: what the return path leaves in Cluster.connected
ConnectedOnReturn(err) == connected

\* kapi.go:185-189: manager.Start returns, because the context is cancelled
\* (cleanly or not) or because the manager failed; Connect returns and the
\* deferred call of kapi.go:175 stops the timer
ConnectReturn(g, err) ==
    /\ pc[g] = "blocking"
    /\ cancelled \/ err
    /\ mgr' = IF err THEN "failed" ELSE "stopped"
    /\ pc' = [pc EXCEPT ![g] = Returned(err)]
    /\ connected' = ConnectedOnReturn(err)
    /\ connectTrail' = [connectTrail EXCEPT
                          ![g] = Append(@, TimerStop("kapi_connect"))]
    /\ UNCHANGED <<obs, logger, cells, envs, wrappers, arrays, updating, running, startCount, cancelled, everSet, raced, recs, hooks, clients,
                   store, cache, watch, queue, admitted, cbKeys, nwrites, last>>

\* the context passed to Connect is cancelled
Cancel ==
    /\ ~cancelled
    /\ cancelled' = TRUE
    /\ UNCHANGED <<connected, global, pc, startCount, mgr, everSet, raced, recs, hooks,
                   clients, store, cache, watch, queue, admitted, cbKeys, nwrites,
                   last>>

(***************************************************************************)
(* ClientFor (client.go:115-138) derives a Client; it reads nothing of the  *)
(* Cluster.  A Client is its cache flag; pre records that it was derived    *)
(* while the Cluster was not connected.                                     *)
(***************************************************************************)
ClientFor(useCache) ==
    LET c == [cache |-> useCache, pre |-> ~connected]
    IN  /\ c \in clients \/ Cardinality(clients) < MaxClients
        /\ clients' = clients \cup {c}
        /\ last' = [Call("ClientFor") EXCEPT
                      !.client = c,
                      !.trail = <<Log(LevelTrace, "creating kapi.client")>>]
        /\ UNCHANGED <<connected, global, pc, startCount, mgr, cancelled, everSet, raced,
                       recs, hooks, store, cache, watch, queue, admitted, cbKeys,
                       nwrites>>

\* the Client every reconciler owns (reconciler.go:100)
ReconcilerClient == [cache |-> TRUE, pre |-> TRUE]

\* variant: ClientFor captures the flag's value when the Client is derived
GetClientPanics_Captured(c) == c.pre

\* client.go:125-127: the closure reads Cluster.connected when it is called
GetClientPanics(c) == ~connected

\* getClient (client.go:124-134): panics, fails to build a direct client
\* (newOk = FALSE), or yields the direct or the manager's cached client
GetClient(c, newOk) ==
    IF GetClientPanics(c) THEN "panic"
    ELSE IF ~c.cache THEN (IF newOk THEN "direct" ELSE "error")
    ELSE "cached"

\* observe (client.go:140-154): what runs at once, and what the returned
\* function runs when the operation returns or panics
\* what fmt.Sprintf("%T", ...) yields for the zero values of the Client's
\* type parameters
ItemType == "*v1.ConfigMap"
ListType == "*v1.ConfigMapList"

\* the action name each Client operation passes to observe
ActionOf ==
    [Create |-> "create", Update |-> "update", Delete |-> "delete",
     Get |-> "get", List |-> "list"]

\* variant: the metric is labelled with the type only
TimerLabels_NoAction(act) == [rtype |-> ItemType, act |-> ""]

\* client.go:152: the labels stopTimer is called with
TimerLabels(act) == [rtype |-> ItemType, act |-> act]

ObserveBefore(act) ==
    <<TimerStart("kapi_client"),
      Labelled(Log(LevelSummary, "kapi_client_summary"),
               [rtype |-> ItemType, act |-> act])>>

\* variant: the returned function stops the timer, then logs the trace line
ObserveAfter_TimerFirst(act) ==
    <<Labelled(TimerStop("kapi_client"), TimerLabels(act)),
      Labelled(Log(LevelTrace, "kapi_client_trace"),
               [rtype |-> ItemType, act |-> act])>>

ObserveAfter(act) ==
    <<Labelled(Log(LevelTrace, "kapi_client_trace"),
               [rtype |-> ItemType, act |-> act]),
      Labelled(TimerStop("kapi_client"), TimerLabels(act))>>

(***************************************************************************)
(* The API server.  A successful write changes the store and, while the     *)
(* manager runs, puts a watch event in flight.  objs are the successive     *)
(* values the writes of one call give the object at key k.                  *)
(***************************************************************************)
Writes(k, et, objs) ==
    /\ nwrites + Len(objs) <= MaxWrites
    /\ mgr = "running" => Len(watch) + Len(objs) <= MaxWatch
    /\ store' = IF objs = <<>> THEN store ELSE [store EXCEPT ![k] = objs[Len(objs)]]
    /\ watch' = IF mgr = "running"
                THEN watch \o [i \in 1 .. Len(objs) |->
                                 [et |-> et, key |-> k,
                                  old |-> IF i = 1 THEN store[k] ELSE objs[i - 1],
                                  new |-> objs[i]]]
                ELSE watch
    /\ nwrites' = nwrites + Len(objs)

\* a call that ends without touching anything but the history
OnlyLast ==
    UNCHANGED <<connected, global, pc, startCount, mgr, cancelled, everSet, raced, recs,
                hooks, clients, store, cache, watch, queue, admitted, cbKeys,
                nwrites>>

\* Init (kapi.go:76-88), called KapiInit here: it panics, or it stores the
\* contract and hands the framework a logger made from it.  The history
\* records the contract and the logger the call found.
KapiInit(cfg) ==
    /\ IF InitPanics(cfg)
       THEN /\ last' = [NoCall EXCEPT !.op = "Init", !.panic = TRUE,
                                      !.obsCfg = cfg, !.obsAt = obs,
                                      !.loggerAt = logger]
            /\ UNCHANGED <<obs, logger>>
       ELSE /\ obs' = StoredContract(cfg)
            /\ logger' = NewLogrWrapper(cfg.BackgroundContext,
                                        StoredContract(cfg).LogFunc)
            /\ last' = [NoCall EXCEPT !.op = "Init", !.obsCfg = cfg,
                                      !.obsAt = obs, !.loggerAt = logger]
    /\ UNCHANGED <<connected, pc, startCount, mgr, cancelled, everSet, raced,
                   recs, hooks, clients, store, cache, watch, queue, admitted,
                   cbKeys, nwrites, cells, envs, wrappers, arrays, connectTrail,
                   updating, running>>

\* the sink of number p: the one handed to the framework, or one derived
Wrapper(p) == IF p = 0 THEN logger ELSE wrappers[p]

\* what the operations on sinks leave alone
WrapperFrame ==
    UNCHANGED <<connected, pc, startCount, mgr, cancelled, everSet, raced, recs,
                hooks, clients, store, cache, watch, queue, admitted, cbKeys,
                nwrites, obs, logger, cells, envs, connectTrail, updating, running>>

\* LogrWrapper.WithValues (logconv.go:51-58) on sink p: a new sink with the
\* context and log function of p, and as attrs what append returns for p's
\* attrs and the arguments
WithValues(p, attr) ==
    /\ Len(wrappers) < MaxWrappers
    /\ LET l == Wrapper(p)
           a == AppendSlice(arrays, l.attrs, attr)
       IN  /\ wrappers' = Append(wrappers, [l EXCEPT !.attrs = a.slice])
           /\ arrays' = a.arrays
    /\ last' = [NoCall EXCEPT !.op = "WithValues", !.target = p, !.attr = attr]
    /\ WrapperFrame

\* LogrWrapper.WithName (logconv.go:60-62)
WithName(p, name) ==
    /\ WithValues(p, <<"name", name>>)

\* LogrWrapper.Info (logconv.go:38-40) on sink p: the log function is called
\* at level 2 with the arguments
Info(p, attr) ==
    /\ last' = [NoCall EXCEPT !.op = "Info", !.target = p, !.attr = attr,
                              !.level = 2,
                              !.received = Received(Wrapper(p), attr)]
    /\ UNCHANGED <<wrappers, arrays>>
    /\ WrapperFrame

\* LogrWrapper.Error (logconv.go:42-44) on sink p: the log function is
\* called at level 0 with the arguments and the pair "error", err
Error(p, attr) ==
    /\ last' = [NoCall EXCEPT !.op = "Error", !.target = p, !.attr = attr,
                              !.level = 0,
                              !.received = Received(Wrapper(p),
                                                    attr \o <<"error", "err">>)]
    /\ UNCHANGED <<wrappers, arrays>>
    /\ WrapperFrame

\* what the envelope operations leave alone
EnvelopeFrame ==
    UNCHANGED <<connected, pc, startCount, mgr, cancelled, everSet, raced, recs,
                hooks, clients, store, cache, watch, queue, admitted, cbKeys,
                nwrites, obs, logger, wrappers, arrays, connectTrail, updating,
                running>>

\* the values of the envelopes application code builds: resources of the
\* instantiations <<spec, status, scale>> below, with or without labels,
\* and lists with no item or one
PayloadValues ==
    {<<[kind |-> "undefined", val |-> ""], [kind |-> "undefined", val |-> ""],
       [kind |-> "undefined", val |-> ""]>>,
     <<[kind |-> "string", val |-> "x"], [kind |-> "undefined", val |-> ""],
       [kind |-> "undefined", val |-> ""]>>,
     <<[kind |-> "pointer", val |-> "x"], [kind |-> "undefined", val |-> ""],
       [kind |-> "undefined", val |-> ""]>>,
     <<[kind |-> "pointer", val |-> Nil], [kind |-> "undefined", val |-> ""],
       [kind |-> "undefined", val |-> ""]>>,
     <<[kind |-> "number", val |-> "1.5"], [kind |-> "undefined", val |-> ""],
       [kind |-> "undefined", val |-> ""]>>,
     <<[kind |-> "number", val |-> "NaN"], [kind |-> "undefined", val |-> ""],
       [kind |-> "undefined", val |-> ""]>>,
     <<[kind |-> "undefined", val |-> ""], [kind |-> "string", val |-> "x"],
       [kind |-> "number", val |-> "1.5"]>>}
EnvelopeValues ==
    {[nil |-> FALSE, list |-> FALSE, name |-> "test-data", labels |-> l,
      spec |-> p[1], status |-> p[2], scale |-> p[3], items |-> Nil] :
        l \in {Nil, "a"}, p \in PayloadValues}
    \cup
    {[nil |-> FALSE, list |-> TRUE, name |-> "", labels |-> Nil,
      spec |-> [kind |-> "undefined", val |-> ""],
      status |-> [kind |-> "undefined", val |-> ""],
      scale |-> [kind |-> "undefined", val |-> ""], items |-> i] :
        i \in {Nil, "x"}}

\* application code builds the original envelope
NewEnvelope(v) ==
    /\ envs[1].nil
    /\ LET b == Build(cells, v)
       IN  /\ envs' = [envs EXCEPT ![1] = b.env]
           /\ cells' = b.heap
    /\ last' = [NoCall EXCEPT !.op = "NewEnvelope", !.target = 1]
    /\ EnvelopeFrame

\* envelope variable j is assigned the DeepCopyObject of the original
Copy(j) ==
    /\ envs[j].nil
    /\ LET c == DeepCopyObject(cells, envs[1])
       IN  /\ envs' = [envs EXCEPT ![j] = c.env]
           /\ cells' = c.heap
    /\ last' = [NoCall EXCEPT !.op = "DeepCopyObject", !.target = j]
    /\ EnvelopeFrame

\* application code sets the name in the metadata of envelope i
SetName(i, v) ==
    /\ ~envs[i].nil /\ ~envs[i].list
    /\ envs' = [envs EXCEPT ![i].name = v]
    /\ last' = [NoCall EXCEPT !.op = "SetName", !.target = i]
    /\ UNCHANGED cells
    /\ EnvelopeFrame

\* application code writes an entry of the labels map of envelope i
SetLabel(i, v) ==
    /\ ~envs[i].nil /\ envs[i].labels # 0
    /\ cells' = [cells EXCEPT ![envs[i].labels] = v]
    /\ last' = [NoCall EXCEPT !.op = "SetLabel", !.target = i]
    /\ UNCHANGED envs
    /\ EnvelopeFrame

\* application code writes the field of payload f of envelope i: in the
\* envelope's struct, or through the pointer the envelope holds
SetPayload(i, f, v) ==
    /\ ~envs[i].nil
    /\ envs[i][f].kind \in {"string", "number"}
          \/ (envs[i][f].kind = "pointer" /\ envs[i][f].ref # 0)
    /\ IF envs[i][f].kind = "pointer"
       THEN /\ cells' = [cells EXCEPT ![envs[i][f].ref] = v]
            /\ UNCHANGED envs
       ELSE /\ envs' = [envs EXCEPT ![i][f].val =
                           IF envs[i][f].kind = "number" THEN "2" ELSE v]
            /\ UNCHANGED cells
    /\ last' = [NoCall EXCEPT !.op = "SetPayload", !.target = i]
    /\ EnvelopeFrame

\* application code writes an element of the Items slice of list i
SetItem(i, v) ==
    /\ ~envs[i].nil /\ envs[i].items # 0
    /\ cells' = [cells EXCEPT ![envs[i].items] = v]
    /\ last' = [NoCall EXCEPT !.op = "SetItem", !.target = i]
    /\ UNCHANGED envs
    /\ EnvelopeFrame

\* NewCluster (kapi.go:98-171) builds another Cluster from cfg; the Cluster
\* the model follows is left alone.  mgrOk: whether ctrl.NewManager succeeds.
NewCluster(cfg, mgrOk) ==
    LET started == <<TimerStart("kapi_new_cluster")>>
        kinds == [i \in 1 .. cfg.Kinds |->
                    Log(LevelTrace, "registering kind type mapping in scheme")]
        base == [Call("NewCluster") EXCEPT !.cfg = cfg]
    IN  /\ IF LeaderElectionPanic(cfg) # "none"
           THEN last' = [base EXCEPT
                           !.panic = TRUE,
                           !.trail = started \o <<TimerStop("kapi_new_cluster")>>]
           ELSE last' = [base EXCEPT
                           !.built = TRUE,
                           !.opts = ManagerOptions(cfg),
                           !.conn = IF mgrOk THEN NewClusterConnected ELSE FALSE,
                           !.err = IF mgrOk THEN "nil" ELSE "wrapped",
                           !.trail =
                               started \o kinds \o <<Callback("NewManager")>>
                               \o (IF mgrOk
                                   THEN <<Log(LevelTrace, "created kapi.cluster")>>
                                   ELSE <<>>)
                               \o <<TimerStop("kapi_new_cluster")>>]
        /\ OnlyLast

ClientFrame ==
    UNCHANGED <<connected, global, pc, startCount, mgr, cancelled, everSet, raced, recs,
                hooks, clients, cache, queue, admitted, cbKeys>>

(***************************************************************************)
(* The Hook entry points (hook.go:53-116), which the framework's webhook    *)
(* server calls with the untyped objects of an admission request.  A hook   *)
(* is named by the callbacks it sets:                                       *)
(*   "none"            no callback                                          *)
(*   "validateCreate"  only ValidateCreateFunc, the README's validator,     *)
(*                     which rejects an object whose data is empty          *)
(*   "all"             that validator, returning a warning as well, a       *)
(*                     DefaulterFunc that fills in an empty data field, and *)
(*                     update and delete validators                         *)
(***************************************************************************)
AllHookKinds == HookKinds \cup {"all"}

HookFuncs == {"DefaulterFunc", "ValidateCreateFunc", "ValidateUpdateFunc",
              "ValidateDeleteFunc"}

\* whether hook h sets callback fn
Has(h, fn) ==
    CASE h = "none" -> FALSE
      [] h = "validateCreate" -> fn = "ValidateCreateFunc"
      [] h = "all" -> TRUE

\* what fmt.Sprintf("%T", zeroOfT) yields for the hook's resource type, a
\* Hook[*ExampleResource]: ExampleResource is an alias of the generic
\* kapi.CustomResource (cmd/quickstart/main.go:17), so %T names the
\* instantiated generic type with its type arguments, not the alias
HookType ==
    "*kapi.CustomResource[main.ExampleResourceSpec,"
        \o "github.com/comradequinn/kapi.FieldUndefined,"
        \o "github.com/comradequinn/kapi.FieldUndefined]"

\* variant: an entry point calls its callback without testing it for nil
HookNoOp_NoNilCheck(h, fn) == FALSE

\* variant: the entry points never call a callback
HookNoOp_Always(h, fn) == TRUE

\* hook.go:54-56, 70-72, 86-88, 103-105: an unset callback ends the entry
\* point at once
HookNoOp(h, fn) == ~Has(h, fn)

\* variant: ValidateUpdate asserts the type of the new object only
TypeMismatch_NewOnly(okNew, okOld) == ~okNew

\* hook.go:62, 78, 95, 111: the type assertions of the incoming objects
\* (one object: okOld = okNew)
TypeMismatch(okNew, okOld) == ~okNew \/ ~okOld

\* variant: Hook.observe emits the summary log only
HookObserveBefore_NoTrace(act) ==
    <<TimerStart("kapi_hook"),
      Labelled(Log(LevelSummary, "kapi_hook_summary"),
               [rtype |-> HookType, act |-> act])>>

\* Hook.observe (hook.go:118-128): what runs at once, and what the returned
\* function runs when the entry point returns
HookObserveBefore(act) ==
    <<TimerStart("kapi_hook"),
      Labelled(Log(LevelSummary, "kapi_hook_summary"),
               [rtype |-> HookType, act |-> act]),
      Labelled(Log(LevelTrace, "kapi_hook_trace"),
               [rtype |-> HookType, act |-> act])>>
HookObserveAfter(act) ==
    <<Labelled(TimerStop("kapi_hook"), [rtype |-> HookType, act |-> act])>>

\* the README's ValidateCreateFunc; hook "all" adds a warning
ValidateCreateFunc(h, res) ==
    [warnings |-> IF h = "all" THEN <<"w">> ELSE <<>>,
     err |-> IF res.data = "" THEN "example-data is required" ELSE "nil"]

\* the DefaulterFunc of hook "all": it sets an empty data field and returns
\* nil
DefaulterFunc(res) == [res EXCEPT !.data = IF @ = "" THEN "x" ELSE @]

\* what the callbacks whose code the model does not fix may return
HookOuts == [warnings : {<<>>, <<"w">>}, err : {"nil", "cberror"}]
NoWarnings == <<>>

\* variant: an entry point returns the callback's error without its warnings
EntryReturn_NoWarnings(h, fn, okNew, okOld, out) ==
    IF HookNoOp(h, fn) THEN [warnings |-> NoWarnings, err |-> "nil"]
    ELSE IF TypeMismatch(okNew, okOld)
    THEN [warnings |-> NoWarnings, err |-> "typeerror"]
    ELSE [warnings |-> NoWarnings, err |-> out.err]

\* what an entry point returns for callback fn of hook h, out being what
\* the callback returns when it is invoked
EntryReturn(h, fn, okNew, okOld, out) ==
    IF HookNoOp(h, fn) THEN [warnings |-> NoWarnings, err |-> "nil"]
    ELSE IF TypeMismatch(okNew, okOld)
    THEN [warnings |-> NoWarnings, err |-> "typeerror"]
    ELSE out

\* The body the four entry points share.  fn is the callback, out what it
\* returns when invoked and res the object as it leaves it.
HookEntry(op, act, fn, i, obj, okNew, okOld, out, res) ==
    LET noop == HookNoOp(hooks[i], fn)
        mismatch == TypeMismatch(okNew, okOld)
        invoked == ~noop /\ ~mismatch
        ret == EntryReturn(hooks[i], fn, okNew, okOld, out)
    IN  /\ mgr = "running"
        /\ i \in 1 .. Len(hooks)
        /\ last' = [Call(op) EXCEPT
                      !.hook = i, !.obj = obj, !.okNew = okNew, !.okOld = okOld,
                      !.set = Has(hooks[i], fn),
                      !.cb = IF invoked THEN 1 ELSE 0,
                      !.err = ret.err,
                      !.warnings = ret.warnings,
                      !.res = IF invoked THEN res ELSE obj,
                      !.trail = IF noop THEN <<>>
                                ELSE HookObserveBefore(act)
                                     \o (IF invoked THEN <<Callback(fn)>> ELSE <<>>)
                                     \o HookObserveAfter(act)]
        /\ OnlyLast

\* Hook.Default (hook.go:53-67)
Default(i, obj, ok) ==
    HookEntry("Default", "default", "DefaulterFunc", i, obj, ok, ok,
              [warnings |-> NoWarnings, err |-> "nil"], DefaulterFunc(obj))

\* Hook.ValidateCreate (hook.go:69-83)
ValidateCreate(i, obj, ok) ==
    /\ i \in 1 .. Len(hooks)
    /\ HookEntry("ValidateCreate", "create", "ValidateCreateFunc", i, obj, ok, ok,
                 ValidateCreateFunc(hooks[i], obj), obj)

\* Hook.ValidateUpdate (hook.go:85-100)
ValidateUpdate(i, oldObj, newObj, okOld, okNew, out) ==
    HookEntry("ValidateUpdate", "update", "ValidateUpdateFunc", i, newObj, okNew,
              okOld, out, newObj)

\* Hook.ValidateDelete (hook.go:102-116)
ValidateDelete(i, obj, ok, out) ==
    HookEntry("ValidateDelete", "delete", "ValidateDeleteFunc", i, obj, ok, ok,
              out, obj)

\* The API server's admission of a create request for resource res: the
\* registered hooks default the object, then validate it; a validator's
\* error denies the request.
Admission(res) ==
    LET H == 1 .. Len(hooks)
        defaulted == IF \E i \in H : ~HookNoOp(hooks[i], "DefaulterFunc")
                     THEN DefaulterFunc(res) ELSE res
    IN  [res |-> defaulted,
         denied |-> \E i \in H :
                      EntryReturn(hooks[i], "ValidateCreateFunc", TRUE, TRUE,
                                  ValidateCreateFunc(hooks[i], defaulted)).err # "nil"]

\* what every Client operation does when getClient panics or fails
Rejected(op, c, k, gc) ==
    /\ last' = [Call(op) EXCEPT
                  !.client = c, !.key = k,
                  !.panic = (gc = "panic"),
                  !.err = IF gc = "panic" THEN "nil" ELSE "error",
                  !.trail = ObserveBefore(ActionOf[op]) \o ObserveAfter(ActionOf[op])]
    /\ OnlyLast

\* Client.Create (client.go:30-40)
Create(c, k, d, newOk, fail) ==
    LET gc == GetClient(c, newOk)
        adm == Admission(Resource(k, Obj(d, "")))
        err == IF fail THEN "error"
               ELSE IF adm.denied THEN "denied"
               ELSE IF store[k].exists THEN "alreadyexists" ELSE "nil"
    IN  /\ c \in clients
        /\ IF gc \in {"panic", "error"}
           THEN Rejected("Create", c, k, gc)
           ELSE /\ Writes(k, ResourceEventTypeCreated,
                          IF err = "nil" THEN <<Obj(adm.res.data, "")>> ELSE <<>>)
                /\ last' = [Call("Create") EXCEPT
                              !.client = c, !.key = k, !.err = err, !.data = d,
                              !.trail = ObserveBefore("create")
                                        \o <<Request("create", "")>>
                                        \o ObserveAfter("create")]
                /\ ClientFrame

\* Client.Delete (client.go:66-76)
Delete(c, k, newOk, fail) ==
    LET gc == GetClient(c, newOk)
        err == IF fail THEN "error"
               ELSE IF ~store[k].exists THEN "notfound" ELSE "nil"
    IN  /\ c \in clients
        /\ IF gc \in {"panic", "error"}
           THEN Rejected("Delete", c, k, gc)
           ELSE /\ Writes(k, ResourceEventTypeDeleted,
                          IF err = "nil" THEN <<Absent>> ELSE <<>>)
                /\ last' = [Call("Delete") EXCEPT
                              !.client = c, !.key = k, !.err = err,
                              !.before = Brief("Delete", c),
                              !.trail = ObserveBefore("delete")
                                        \o <<Request("delete", "")>>
                                        \o ObserveAfter("delete")]
                /\ ClientFrame

(***************************************************************************)
(* Client.Update (client.go:44-63).  Without subresource names the call     *)
(* issues one full-object request.  With names it loops over them, one      *)
(* request to the API server per name; the call waits for each answer, and  *)
(* other goroutines run meanwhile.  A request is refused when the server is *)
(* unreachable (request failAt), when the object is absent, or when the     *)
(* type has no such subresource; the loop stops there.                      *)
(***************************************************************************)
\* whether the API server refuses a subresource update of object o
SubresourceRefused(sub, o, unreachable) ==
    unreachable \/ ~o.exists \/ sub # SubresourceStatus

\* variant: the loop attempts every name and reports a failure at the end
LoopStops_AllNames(refused, i, n) == i = n

\* client.go:56-62: the loop over n names ends after request i
LoopStops(refused, i, n) == refused \/ i = n

\* sequences of at most n subresource names
SubSeqs(n) == UNION {[1 .. m -> Subresources] : m \in 0 .. n}

\* client.go:57-59: the call rec issues its next subresource request; the
\* call returns when the loop ends, and waits inside the loop otherwise
UpdateRequest(rec) ==
    LET i == rec.at + 1
        k == rec.key
        refused == SubresourceRefused(rec.subs[i], store[k], i = rec.failAt)
        o2 == [store[k] EXCEPT !.status = rec.status]
        rec2 == [rec EXCEPT !.at = i,
                            !.trail = Append(@, Request("update", rec.subs[i])),
                            !.err = IF refused THEN "wrapped" ELSE @]
    IN  /\ Writes(k, ResourceEventTypeUpdated,
                  IF refused \/ o2 = store[k] THEN <<>> ELSE <<o2>>)
        /\ IF LoopStops(refused, i, Len(rec.subs))
           THEN /\ last' = [rec2 EXCEPT !.trail = @ \o ObserveAfter("update")]
                /\ updating' = Idle
           ELSE /\ updating' = rec2
                /\ UNCHANGED last
        /\ UNCHANGED <<connected, obs, logger, cells, envs, wrappers, arrays,
                       connectTrail, running, pc, startCount, mgr, cancelled,
                       everSet, raced, recs, hooks, clients, cache, queue,
                       admitted, cbKeys>>

Update(c, k, d, s, subs, newOk, failAt) ==
    LET gc == GetClient(c, newOk)
        full == IF failAt = 1 THEN [err |-> "error", objs |-> <<>>]
                ELSE IF ~store[k].exists THEN [err |-> "notfound", objs |-> <<>>]
                ELSE LET o2 == [store[k] EXCEPT !.data = d]
                     IN  [err |-> "nil",
                          objs |-> IF o2 = store[k] THEN <<>> ELSE <<o2>>]
    IN  /\ c \in clients
        /\ IF gc \in {"panic", "error"}
           THEN Rejected("Update", c, k, gc)
           ELSE IF Len(subs) = 0
           THEN /\ Writes(k, ResourceEventTypeUpdated, full.objs)
                /\ last' = [Call("Update") EXCEPT
                              !.client = c, !.key = k, !.err = full.err,
                              !.data = d, !.status = s, !.subs = subs,
                              !.failAt = failAt,
                              !.trail = ObserveBefore("update")
                                        \o <<Request("update", "")>>
                                        \o ObserveAfter("update")]
                /\ ClientFrame
           ELSE /\ updating = Idle
                /\ UpdateRequest([Call("Update") EXCEPT
                                    !.client = c, !.key = k, !.data = d,
                                    !.status = s, !.subs = subs,
                                    !.failAt = failAt,
                                    !.trail = ObserveBefore("update")])

(***************************************************************************)
(* Reads.  The direct client reads the store; the manager's client reads    *)
(* the informer cache, which cannot be read before the manager has started. *)
(***************************************************************************)
ReadFails(gc, fail) == fail \/ (gc = "cached" /\ mgr = "idle")

\* variant: the direct client reads the informer cache as well
Source_Cache(gc) == cache

Source(gc) == IF gc = "direct" THEN store ELSE cache

\* variant: Get wraps the low-level client's error
GetError_Opaque(gc, k, fail) ==
    IF ReadFails(gc, fail) \/ ~Source(gc)[k].exists THEN "error" ELSE "nil"

\* client.go:90: Get returns the low-level client's error as it is, so a
\* not-found stays a not-found
GetError(gc, k, fail) ==
    IF ReadFails(gc, fail) THEN "error"
    ELSE IF ~Source(gc)[k].exists THEN "notfound" ELSE "nil"

\* the items a List reads from src, one per object, in key order
RECURSIVE ListItems(_, _)
ListItems(src, ks) ==
    IF ks = <<>> THEN <<>>
    ELSE (IF src[Head(ks)].exists
          THEN <<Resource(Head(ks), src[Head(ks)])>> ELSE <<>>)
         \o ListItems(src, Tail(ks))

\* Client.Get (client.go:79-91)
Get(c, k, newOk, fail) ==
    LET gc == GetClient(c, newOk)
        err == GetError(gc, k, fail)
    IN  /\ c \in clients
        /\ IF gc \in {"panic", "error"}
           THEN Rejected("Get", c, k, gc)
           ELSE /\ last' = [Call("Get") EXCEPT
                              !.client = c, !.key = k, !.err = err,
                              !.before = Brief("Get", c),
                              !.failAt = IF fail THEN 1 ELSE 0,
                              !.result = IF err = "nil"
                                         THEN Resource(k, Source(gc)[k])
                                         ELSE ZeroResource,
                              !.trail = ObserveBefore("get")
                                        \o <<Request("get", "")>>
                                        \o ObserveAfter("get")]
                /\ OnlyLast

\* Client.List (client.go:94-106)
List(c, newOk, fail) ==
    LET gc == GetClient(c, newOk)
        err == IF ReadFails(gc, fail) THEN "error" ELSE "nil"
    IN  /\ c \in clients
        /\ IF gc \in {"panic", "error"}
           THEN Rejected("List", c, NoKey, gc)
           ELSE /\ last' = [Call("List") EXCEPT
                              !.client = c, !.err = err,
                              !.before = Brief("List", c),
                              !.items = IF err = "nil"
                                        THEN ListItems(Source(gc), KeySeq)
                                        ELSE <<>>,
                              !.trail = ObserveBefore("list")
                                        \o <<Request("list", "")>>
                                        \o ObserveAfter("list")]
                /\ OnlyLast

(***************************************************************************)
(* The event predicate AddReconciler registers (reconciler.go:69-97).       *)
(***************************************************************************)
\* the filter application code supplied; reconciler.go:69-71 replaces a nil
\* filter by one that returns true
ReconcilerFilterFunc(f, et, k, o) ==
    CASE f = "nil" -> TRUE
      [] f = "createdTestData" -> et = ResourceEventTypeCreated /\ k[2] = "test-data"
      [] f = "dataX" -> o.data = "x"

\* variant: the predicate shows the filter the object after an update
ShownObject_AfterUpdate(ev) ==
    IF ev.et = ResourceEventTypeDeleted THEN ev.old ELSE ev.new

\* the object of a watch event that the predicate shows to the filter
\* (reconciler.go:88-96): e.Object of a create or delete event, e.ObjectOld
\* of an update event
ShownObject(ev) ==
    IF ev.et = ResourceEventTypeCreated THEN ev.new ELSE ev.old

\* variant: the predicate logs the filter's decision and forwards the event
\* whatever the filter returned
Predicate_AlwaysForward(f, ev) == TRUE

\* reconcilerFilterFuncWithLogging (reconciler.go:73-81): the predicate
\* returns what the filter returned
Predicate(f, ev) == ReconcilerFilterFunc(f, ev.et, ev.key, ShownObject(ev))

\* The informer takes the next watch event: it updates the cache, then runs
\* each controller's predicate, and a controller whose predicate returned
\* true adds the object's key to its work queue.  The history records the
\* keys for which the supplied filter itself returned true.
Deliver ==
    /\ mgr = "running"
    /\ watch # <<>>
    /\ LET ev == Head(watch)
           admit == [i \in 1 .. Len(recs) |-> Predicate(recs[i].filter, ev)]
           passed == [i \in 1 .. Len(recs) |->
                        ReconcilerFilterFunc(recs[i].filter, ev.et, ev.key,
                                             ShownObject(ev))]
       IN  /\ watch' = Tail(watch)
           /\ cache' = [cache EXCEPT ![ev.key] = ev.new]
           /\ queue' = [i \in 1 .. Len(recs) |->
                          IF admit[i] THEN queue[i] \cup {ev.key} ELSE queue[i]]
           /\ admitted' = [i \in 1 .. Len(recs) |->
                             IF passed[i] THEN admitted[i] \cup {ev.key}
                             ELSE admitted[i]]
           /\ last' = [Call("Deliver") EXCEPT
                         !.key = ev.key,
                         !.shown = [i \in 1 .. Len(recs) |->
                                      [et |-> ev.et, obj |-> ShownObject(ev),
                                       admit |-> admit[i]]],
                         !.trail = [i \in 1 .. Len(recs) |->
                                      Log(LevelTrace,
                                          IF admit[i]
                                          THEN "kapi.reconciler.filterfunc allowed event"
                                          ELSE "kapi.reconciler.filterfunc dropped event")]]
    /\ UNCHANGED <<connected, global, pc, startCount, mgr, cancelled, everSet, raced, recs,
                   hooks, clients, store, cbKeys, nwrites>>

(***************************************************************************)
(* reconciler.Reconcile (reconciler.go:112-142).                            *)
(***************************************************************************)
\* the outcome of r.client.Get (reconciler.go:124): the reconciler's Client
\* reads the informer cache; fetchErr is a failure other than not-found
Fetch(k, fetchErr) ==
    IF fetchErr THEN "error"
    ELSE IF cache[k].exists THEN "ok" ELSE "notfound"

\* variant: Reconcile goes on after any fetch error
FetchErrorReturns_Never(fetch) == FALSE

\* reconciler.go:125-128: a fetch error other than not-found ends Reconcile
FetchErrorReturns(fetch) == fetch = "error"

\* variant: the not-found test of reconciler.go:125 is inverted
Classify_Inverted(fetch) ==
    IF fetch = "notfound" THEN ReconcileEventTypeCreatedOrUpdated
    ELSE ReconcileEventTypeDeleted

\* reconciler.go:122-131
Classify(fetch) ==
    IF fetch = "notfound" THEN ReconcileEventTypeDeleted
    ELSE ReconcileEventTypeCreatedOrUpdated

\* variant: the callback is given the zero value Reconcile declared, not
\* the resource it fetched
Fetched_Zero(k, fetch) == ZeroResource

\* the resource Client.Get returns (client.go:80-90): the zero value it
\* allocated, filled in only when the read succeeds
Fetched(k, fetch) ==
    IF fetch = "ok" THEN Resource(k, cache[k]) ELSE ZeroResource

\* how often Reconcile invokes reconcilerFunc (reconciler.go:136)
CallbackCalls(fetch) == IF FetchErrorReturns(fetch) THEN 0 ELSE 1

\* variant: Reconcile logs the callback's error and returns nil
CallbackReturn_Swallowed(cbErr) == "nil"

\* reconciler.go:136-141: the error Reconcile returns after the callback
CallbackReturn(cbErr) == IF cbErr THEN "wrapped" ELSE "nil"

\* ctrl.Result{} (reconciler.go:127, 138, 141): no requeue is requested
EmptyResult == [requeue |-> FALSE]

\* the framework puts a request back on the work queue when Reconcile
\* returned an error or asked for it
Requeues(err, result) == err # "nil" \/ result.requeue

\* what the steps of a Reconcile call leave alone
ReconcileFrame ==
    UNCHANGED <<connected, obs, logger, cells, envs, wrappers, arrays,
                connectTrail, updating, pc, startCount, mgr, cancelled, everSet,
                raced, recs, hooks, clients, store, cache, watch, admitted,
                nwrites>>

\* The framework takes key k off reconciler i's work queue and calls
\* Reconcile, one call per reconciler at a time; the call runs up to the
\* return of r.client.Get (reconciler.go:112-124).  A call that panics in
\* getClient or whose fetch fails (reconciler.go:125-128) ends here, and the
\* framework puts the key back.  Other goroutines run before the call goes on.
Reconcile(i, k, fetchErr) ==
    LET fetch == Fetch(k, fetchErr)
        head == <<Callback("NewCorrelationCtx"), TimerStart("kapi_reconcile")>>
                \o ObserveBefore("get")
        fetched == head \o <<Request("get", "")>> \o ObserveAfter("get")
        base == [Call("Reconcile") EXCEPT
                   !.rec = i, !.key = k, !.client = ReconcilerClient]
        done == <<TimerStop("kapi_reconcile")>>
    IN  /\ mgr = "running"
        /\ i \in 1 .. Len(recs)
        /\ k \in queue[i]
        /\ running[i] = Idle
        /\ IF GetClientPanics(ReconcilerClient)
           THEN /\ last' = [base EXCEPT
                              !.panic = TRUE,
                              !.trail = head \o ObserveAfter("get") \o done]
                /\ UNCHANGED <<queue, running>>
           ELSE IF FetchErrorReturns(fetch)
           THEN /\ last' = [base EXCEPT
                              !.fetch = fetch, !.err = "error",
                              !.trail =
                                  fetched
                                  \o <<Log(LevelError,
                                           "kapi.reconciler invoked for invalid resource")>>
                                  \o done]
                /\ UNCHANGED <<queue, running>>
           ELSE /\ running' = [running EXCEPT
                                 ![i] = [base EXCEPT
                                           !.fetch = fetch, !.evt = Classify(fetch),
                                           !.res = Fetched(k, fetch),
                                           !.trail = fetched, !.at = 1]]
                /\ queue' = [queue EXCEPT ![i] = @ \ {k}]
                /\ UNCHANGED last
        /\ UNCHANGED cbKeys
        /\ ReconcileFrame

\* reconciler.go:133-136: the call of reconciler i logs the invocation and
\* invokes reconcilerFunc with the classification and the resource it
\* fetched; the callback runs while other goroutines do
ReconcileInvoke(i) ==
    /\ i \in 1 .. Len(recs)
    /\ running[i] # Idle /\ running[i].at = 1
    /\ LET n == CallbackCalls(running[i].fetch)
       IN  /\ running' = [running EXCEPT
                            ![i] = [@ EXCEPT
                                      !.cb = n, !.at = 2,
                                      !.trail =
                                          @ \o <<Log(LevelSummary, "kapi_reconciler_summary"),
                                                 Log(LevelTrace, "kapi_reconciler_trace")>>
                                            \o [j \in 1 .. n |-> Callback("reconcilerFunc")]]]
           /\ cbKeys' = [cbKeys EXCEPT
                           ![i] = IF n > 0 THEN @ \cup {running[i].key} ELSE @]
    /\ UNCHANGED <<last, queue>>
    /\ ReconcileFrame

\* reconciler.go:136-141: reconcilerFunc returns, with an error or without,
\* and Reconcile returns; the framework puts the key back on the work queue
\* when Reconcile returned an error
ReconcileReturn(i, cbErr) ==
    /\ i \in 1 .. Len(recs)
    /\ running[i] # Idle /\ running[i].at = 2
    /\ last' = [running[i] EXCEPT
                  !.cbErr = cbErr,
                  !.err = CallbackReturn(cbErr),
                  !.requeue = EmptyResult.requeue,
                  !.trail =
                      @ \o (IF cbErr
                            THEN <<Log(LevelError,
                                       "kapi.reconciler unable to invoke reconciler-func")>>
                            ELSE <<>>)
                        \o <<TimerStop("kapi_reconcile")>>]
    /\ running' = [running EXCEPT ![i] = Idle]
    /\ queue' = [queue EXCEPT
                   ![i] = IF Requeues(CallbackReturn(cbErr), EmptyResult)
                          THEN @ \cup {running[i].key} ELSE @]
    /\ UNCHANGED cbKeys
    /\ ReconcileFrame

(***************************************************************************)
(* The specifications.  Each explores one part of the program from a state  *)
(* the program can be in, with the inputs that part's properties are about. *)
(*                                                                          *)
(*   Spec           the Cluster's life from NewCluster on: registration     *)
(*                  and Connect called from several goroutines.             *)
(*   SpecClient     the same life without registrations: ClientFor and the  *)
(*                  Client operations running beside Connect.               *)
(*   SpecReconcile  a connected Cluster with one reconciler, whose manager  *)
(*                  runs: writes to the store, event delivery, Reconcile.   *)
(***************************************************************************)
Registration ==
    \/ \E f \in Filters, fwOk \in BOOLEAN : AddReconciler(f, fwOk)
    \/ \E h \in HookKinds, fwOk \in BOOLEAN : AddHook(h, fwOk)

Connecting ==
    \/ \E g \in Procs : ConnectCall(g)
    \/ \E g \in Procs : ConnectSet(g)
    \/ \E g \in Procs : ConnectStart(g)
    \/ \E g \in Procs, err \in BOOLEAN : ConnectReturn(g, err)
    \/ Cancel

Next ==
    \/ Registration
    \/ Connecting

Spec == Init /\ [][Next]_vars

\* the inputs of the Client operations that SpecClient explores
ClientKeys == {<<TestNamespace, "test-data">>}
ClientData == {"x"}

\* the one goroutine that calls Connect while Clients are in use
ClientProcs == {1}

NextClient ==
    \/ \E useCache \in BOOLEAN : ClientFor(useCache)
    \/ \E g \in ClientProcs : ConnectCall(g)
    \/ \E g \in ClientProcs : ConnectSet(g)
    \/ \E g \in ClientProcs : ConnectStart(g)
    \/ \E g \in ClientProcs, err \in BOOLEAN : ConnectReturn(g, err)
    \/ Cancel
    \/ \E c \in clients, k \in ClientKeys, d \in ClientData,
          newOk \in BOOLEAN, fail \in BOOLEAN :
          Create(c, k, d, newOk, fail)
    \/ \E c \in clients, k \in ClientKeys, d \in Data, newOk \in BOOLEAN,
          failAt \in 0 .. 1 :
          Update(c, k, d, "", <<>>, newOk, failAt)
    \/ \E c \in clients, k \in ClientKeys, newOk \in BOOLEAN, fail \in BOOLEAN :
          Delete(c, k, newOk, fail)
    \/ \E c \in clients, k \in ClientKeys, newOk \in BOOLEAN, fail \in BOOLEAN :
          Get(c, k, newOk, fail)
    \/ \E c \in clients, newOk \in BOOLEAN, fail \in BOOLEAN : List(c, newOk, fail)
    \/ Deliver

SpecClient == Init /\ [][NextClient]_vars

\* A Cluster on which AddReconciler registered one reconciler with filter f
\* and ClientFor derived a direct Client, and whose Connect, called by
\* goroutine 1, is inside manager.Start.
InitReconcile ==
    /\ connected = TRUE
    /\ pc = [g \in Procs |-> IF g = 1 THEN "blocking" ELSE "idle"]
    /\ connectTrail = [g \in Procs |-> IF g = 1 THEN InsideStart ELSE <<>>]
    /\ startCount = 1
    /\ mgr = "running"
    /\ cancelled = FALSE
    /\ everSet = TRUE
    /\ raced = FALSE
    /\ \E f \in Filters : recs = <<[filter |-> f]>>
    /\ hooks = <<>>
    /\ clients = {[cache |-> FALSE, pre |-> TRUE]}
    /\ store = [k \in Keys |-> Absent]
    /\ cache = [k \in Keys |-> Absent]
    /\ watch = <<>>
    /\ queue = <<{}>>
    /\ admitted = <<{}>>
    /\ cbKeys = <<{}>>
    /\ nwrites = 0
    /\ last = NoCall
    /\ Initialised

NextReconcile ==
    \/ \E c \in clients, k \in Keys, d \in Data : Create(c, k, d, TRUE, FALSE)
    \/ \E c \in clients, k \in Keys, d \in Data : Update(c, k, d, "", <<>>, TRUE, 0)
    \/ \E c \in clients, k \in Keys : Delete(c, k, TRUE, FALSE)
    \/ Deliver
    \/ \E i \in 1 .. MaxRecs, k \in Keys, fetchErr \in BOOLEAN :
          Reconcile(i, k, fetchErr)
    \/ \E i \in 1 .. MaxRecs : ReconcileInvoke(i)
    \/ \E i \in 1 .. MaxRecs, cbErr \in BOOLEAN : ReconcileReturn(i, cbErr)

SpecReconcile == InitReconcile /\ [][NextReconcile]_vars

\* A connected Cluster without reconcilers whose manager runs, with a direct
\* and a cached Client derived before Connect.
InitStore ==
    /\ connected = TRUE
    /\ pc = [g \in Procs |-> IF g = 1 THEN "blocking" ELSE "idle"]
    /\ connectTrail = [g \in Procs |-> IF g = 1 THEN InsideStart ELSE <<>>]
    /\ startCount = 1
    /\ mgr = "running"
    /\ cancelled = FALSE
    /\ everSet = TRUE
    /\ raced = FALSE
    /\ recs = <<>>
    /\ hooks = <<>>
    /\ clients = {[cache |-> FALSE, pre |-> TRUE], [cache |-> TRUE, pre |-> TRUE]}
    /\ store = [k \in Keys |-> Absent]
    /\ cache = [k \in Keys |-> Absent]
    /\ watch = <<>>
    /\ queue = <<>>
    /\ admitted = <<>>
    /\ cbKeys = <<>>
    /\ nwrites = 0
    /\ last = NoCall
    /\ Initialised

\* the Clients that read the store directly
Direct == {c \in clients : ~c.cache}

\* Writes go through a direct Client (a cached Client writes to the same
\* store); a subresource update passes the payload it read and a new status,
\* and names one subresource.
NextStore ==
    \/ \E c \in Direct, k \in Keys, d \in Data, fail \in BOOLEAN :
          Create(c, k, d, TRUE, fail)
    \/ \E c \in Direct, k \in Keys, d \in Data, failAt \in 0 .. 1 :
          Update(c, k, d, "", <<>>, TRUE, failAt)
    \/ \E c \in Direct, k \in ClientKeys, s \in ClientData,
          sub \in Subresources, failAt \in 0 .. 1 :
          Update(c, k, store[k].data, s, <<sub>>, TRUE, failAt)
    \/ \E c \in Direct, k \in Keys, fail \in BOOLEAN : Delete(c, k, TRUE, fail)
    \/ \E c \in clients, k \in Keys, fail \in BOOLEAN : Get(c, k, TRUE, fail)
    \/ \E c \in clients, fail \in BOOLEAN : List(c, TRUE, fail)
    \/ Deliver

SpecStore == InitStore /\ [][NextStore]_vars

\* The same Cluster with one goroutine that updates subresources, by up to
\* MaxSubs names a call, while other goroutines create, update and delete
\* the objects and the informer takes the watch events.
SpecUpdate ==
    /\ InitStore
    /\ [][\/ \E c \in Direct, k \in Keys, s \in ClientData,
                subs \in SubSeqs(MaxSubs) \ {<<>>}, failAt \in 0 .. MaxSubs :
                Update(c, k, store[k].data, s, subs, TRUE, failAt)
          \/ updating # Idle /\ UpdateRequest(updating)
          \/ \E c \in Direct, k \in Keys, d \in ClientData :
                Create(c, k, d, TRUE, FALSE)
          \/ \E c \in Direct, k \in Keys, d \in ClientData :
                Update(c, k, d, "", <<>>, TRUE, 0)
          \/ \E c \in Direct, k \in Keys : Delete(c, k, TRUE, FALSE)
          \/ Deliver]_vars

\* A connected Cluster on which AddHook registered one hook and ClientFor
\* derived a direct Client, and whose manager runs.
InitHook ==
    /\ connected = TRUE
    /\ pc = [g \in Procs |-> IF g = 1 THEN "blocking" ELSE "idle"]
    /\ connectTrail = [g \in Procs |-> IF g = 1 THEN InsideStart ELSE <<>>]
    /\ startCount = 1
    /\ mgr = "running"
    /\ cancelled = FALSE
    /\ everSet = TRUE
    /\ raced = FALSE
    /\ recs = <<>>
    /\ \E h \in AllHookKinds : hooks = <<h>>
    /\ clients = {[cache |-> FALSE, pre |-> TRUE]}
    /\ store = [k \in Keys |-> Absent]
    /\ cache = [k \in Keys |-> Absent]
    /\ watch = <<>>
    /\ queue = <<>>
    /\ admitted = <<>>
    /\ cbKeys = <<>>
    /\ nwrites = 0
    /\ last = NoCall
    /\ Initialised

\* the objects of admission requests
HookObjs == {Resource(k, Obj(d, "")) : k \in ClientKeys, d \in Data}

NextHook ==
    \/ \E c \in clients, k \in Keys, d \in Data, fail \in BOOLEAN :
          Create(c, k, d, TRUE, fail)
    \/ \E c \in clients, k \in Keys : Delete(c, k, TRUE, FALSE)
    \/ \E c \in clients, k \in Keys : Get(c, k, TRUE, FALSE)
    \/ Deliver
    \/ \E i \in 1 .. Len(hooks), obj \in HookObjs, ok \in BOOLEAN :
          Default(i, obj, ok)
    \/ \E i \in 1 .. Len(hooks), obj \in HookObjs, ok \in BOOLEAN :
          ValidateCreate(i, obj, ok)
    \/ \E i \in 1 .. Len(hooks), oldObj \in HookObjs, newObj \in HookObjs,
          okOld \in BOOLEAN, okNew \in BOOLEAN, out \in HookOuts :
          ValidateUpdate(i, oldObj, newObj, okOld, okNew, out)
    \/ \E i \in 1 .. Len(hooks), obj \in HookObjs, ok \in BOOLEAN,
          out \in HookOuts :
          ValidateDelete(i, obj, ok, out)

SpecHook == InitHook /\ [][NextHook]_vars

\* The process from its start, before Init was called.  The Cluster's
\* variables hold what NewCluster gives them; application code builds and
\* uses the Cluster only once Init has stored a contract (before that, every
\* kapi call would invoke a nil function).
InitProcess ==
    /\ connected = NewClusterConnected
    /\ pc = [g \in Procs |-> "idle"]
    /\ connectTrail = [g \in Procs |-> <<>>]
    /\ startCount = 0
    /\ mgr = "idle"
    /\ cancelled = FALSE
    /\ everSet = FALSE
    /\ raced = FALSE
    /\ recs = <<>>
    /\ hooks = <<>>
    /\ clients = {}
    /\ store = [k \in Keys |-> Absent]
    /\ cache = [k \in Keys |-> Absent]
    /\ watch = <<>>
    /\ queue = <<>>
    /\ admitted = <<>>
    /\ cbKeys = <<>>
    /\ nwrites = 0
    /\ last = NoCall
    /\ obs = NoObs
    /\ logger = NoLogger
    /\ NoEnvelopes

NextObs ==
    \/ \E cfg \in ObservabilityConfigs : KapiInit(cfg)
    \/ obs # NoObs /\
          NewCluster([Enabled |-> TRUE,
                      LockResource |-> "kapi-test-leader-election-lock",
                      Namespace |-> "", Namespaces |-> <<"kapi-test">>,
                      Kinds |-> 2], TRUE)
    \/ obs # NoObs /\ \E fwOk \in BOOLEAN : AddReconciler("nil", fwOk)
    \/ obs # NoObs /\ \E fwOk \in BOOLEAN : AddHook("validateCreate", fwOk)
    \/ obs # NoObs /\ \E g \in ClientProcs : ConnectCall(g)
    \/ obs # NoObs /\ \E g \in ClientProcs : ConnectSet(g)
    \/ obs # NoObs /\ \E g \in ClientProcs : ConnectStart(g)
    \/ obs # NoObs /\ \E g \in ClientProcs, err \in BOOLEAN : ConnectReturn(g, err)
    \/ obs # NoObs /\ Cancel
    \/ obs # NoObs /\ ClientFor(FALSE)
    \/ obs # NoObs /\ \E c \in clients, k \in ClientKeys, d \in ClientData :
                         Create(c, k, d, TRUE, FALSE)
    \/ obs # NoObs /\ \E c \in clients, k \in ClientKeys : Get(c, k, TRUE, FALSE)
    \/ obs # NoObs /\ Deliver
    \/ obs # NoObs /\ \E i \in 1 .. MaxRecs, k \in ClientKeys :
                         Reconcile(i, k, FALSE)
    \/ obs # NoObs /\ \E i \in 1 .. MaxRecs : ReconcileInvoke(i)
    \/ obs # NoObs /\ \E i \in 1 .. MaxRecs : ReconcileReturn(i, FALSE)
    \/ obs # NoObs /\ \E i \in 1 .. Len(hooks), obj \in HookObjs :
                         ValidateCreate(i, obj, TRUE)

SpecObs == InitProcess /\ [][NextObs]_vars

\* Envelopes: an original is built, deep-copied twice, and the three values
\* are mutated in any order.
NextCopy ==
    \/ \E v \in EnvelopeValues : NewEnvelope(v)
    \/ \E j \in {2, 3} : Copy(j)
    \/ \E i \in 1 .. 3 : SetName(i, "other")
    \/ \E i \in 1 .. 3 : SetLabel(i, "b")
    \/ \E i \in 1 .. 3, f \in PayloadFields : SetPayload(i, f, "y")
    \/ \E i \in 1 .. 3 : SetItem(i, "y")

SpecCopy == Init /\ [][NextCopy]_vars

\* The framework derives sinks from the logger it was given, and from the
\* sinks derived before, and logs through any of them.
NextLog ==
    \/ \E p \in 0 .. Len(wrappers), v \in {"a", "b"} : WithValues(p, <<"k", v>>)
    \/ \E p \in 0 .. Len(wrappers) : WithName(p, "ctrl")
    \/ \E p \in 0 .. Len(wrappers) : Info(p, <<"m", "x">>)
    \/ \E p \in 0 .. Len(wrappers) : Error(p, <<"m", "x">>)

SpecLog == Init /\ [][NextLog]_vars

\* NewCluster called with each ClusterConfig, on a process that holds the
\* Cluster of Init.
SpecNewCluster ==
    /\ Init
    /\ [][\E cfg \in ClusterConfigs, mgrOk \in BOOLEAN : NewCluster(cfg, mgrOk)]_vars

\* The Cluster's life with the operations application code can call beside
\* Connect, under the scheduling the code relies on: the goroutine of a
\* Connect call keeps running, and the framework's manager.Start returns
\* once its context is cancelled.  Nothing makes a manager fail, and while
\* the context lives Connect may block for ever.
NextShutdown ==
    \/ \E g \in Procs : ConnectCall(g)
    \/ \E g \in Procs : ConnectSet(g)
    \/ \E g \in Procs : ConnectStart(g)
    \/ \E g \in Procs, err \in BOOLEAN : ConnectReturn(g, err)
    \/ Cancel
    \/ \E fwOk \in BOOLEAN : AddHook("none", fwOk)
    \/ ClientFor(FALSE)
    \/ \E c \in clients, k \in ClientKeys : Get(c, k, TRUE, FALSE)

SpecShutdown ==
    /\ Init
    /\ [][NextShutdown]_vars
    /\ \A g \in Procs : WF_vars(ConnectSet(g))
    /\ \A g \in Procs : WF_vars(ConnectStart(g))
    /\ \A g \in Procs : WF_vars(ConnectReturn(g, FALSE))

(***************************************************************************)
(* Properties.                                                              *)
(***************************************************************************)
ClientOps == {"Create", "Update", "Delete", "Get", "List"}
RegistrationOps == {"AddReconciler", "AddHook"}

\* what the last registration call registered
RegisteredByLast ==
    IF last.op = "AddReconciler" THEN Len(recs) - last.nrecs
    ELSE Len(hooks) - last.nhooks
\* the last registration call left every registration as it was
RegisteredNothing == Len(recs) = last.nrecs /\ Len(hooks) = last.nhooks

\* C1, as stated: AddReconciler and AddHook panic and register nothing when
\* the Cluster is connected; when it is not connected they do not panic and
\* the registration is made.
C1_Original ==
    last.op \in RegistrationOps =>
        IF last.conn
        THEN last.panic /\ RegisteredNothing
        ELSE ~last.panic /\ RegisteredByLast = 1

\* C1, amended: AddReconciler and AddHook panic and register nothing when the
\* Cluster is connected.  When it is not connected they do not panic, and the
\* registration is made exactly when the framework accepts it; when the
\* framework refuses it nothing is registered, AddReconciler returns a
\* wrapped error and AddHook returns nil.
C1_Registration ==
    last.op \in RegistrationOps =>
        IF last.conn
        THEN last.panic /\ RegisteredNothing
        ELSE /\ ~last.panic
             /\ RegisteredByLast = (IF last.fwOk THEN 1 ELSE 0)
             /\ last.fwOk => last.err = "nil"
             /\ ~last.fwOk =>
                  /\ RegisteredNothing
                  /\ last.err = (IF last.op = "AddReconciler" THEN "wrapped" ELSE "nil")

\* AddHook panics on a connected Cluster that holds a reconciler and a hook
\* registered before Connect
C1_Witness ==
    /\ last.op = "AddHook" /\ last.conn /\ last.panic
    /\ Len(recs) = 1 /\ Len(hooks) = 1

\* the Connect calls that went past the check of kapi.go:177
PassedCheck == {g \in Procs : pc[g] \in {"set", "start", "blocking", "retNil", "retErr"}}
\* the Connect calls that invoked manager.Start
InvokedStart == {g \in Procs : pc[g] \in {"blocking", "retNil", "retErr"}}

\* C2: a Connect call made after an earlier call set the connected flag
\* panics, however the earlier call went on (blocking, returned nil, returned
\* an error); a call that panicked never invokes manager.Start; and unless
\* two calls overlap between check and assignment, manager.Start is invoked
\* at most once.
C2_SecondConnectPanics ==
    /\ (last.op = "Connect" /\ last.priorSet) => last.panic
    /\ startCount = Cardinality(InvokedStart)
    /\ ~raced => startCount <= 1

\* Connect panics after an earlier call returned an error, with no overlap
C2_Witness ==
    /\ last.op = "Connect" /\ last.panic /\ ~raced
    /\ \E g \in Procs : pc[g] = "retErr"
    /\ startCount = 1

C3_State ==
    /\ connected = everSet
    /\ startCount > 0 => connected
    /\ (\E g \in Procs : pc[g] \in {"start", "blocking", "retNil", "retErr"}) => connected
    /\ (last.op \in RegistrationOps \cup {"Connect"} /\ last.priorSet) =>
           last.panic /\ (last.op \in RegistrationOps => RegisteredNothing)

\* C3: Cluster.connected is false until a Connect call assigns it, is true
\* before manager.Start is invoked, and no step sets it back to false, also
\* not the return of a failed or cancelled Start; every Connect and every
\* registration call made after the assignment panics.
C3_ConnectedMonotone ==
    /\ []C3_State
    /\ [][connected => connected']_vars

\* a registration call panics on a Cluster whose only Connect call returned
\* an error
C3_Witness ==
    /\ \E g \in Procs : pc[g] = "retErr"
    /\ \A g \in Procs : pc[g] \in {"retErr", "idle"}
    /\ connected /\ mgr = "failed"
    /\ last.op = "AddReconciler" /\ last.panic

\* C4: a Client operation panics exactly when Cluster.connected is false at
\* the time it runs, whenever its Client was derived, and a panicking
\* operation issues no request; ClientFor never panics.
C4_ClientGate ==
    /\ last.op \in ClientOps =>
          /\ last.panic <=> ~last.conn
          /\ last.panic => Requests(last.trail) = <<>>
          /\ last.client \in clients
    /\ last.op = "ClientFor" => ~last.panic /\ last.client \in clients

\* a Client derived before Connect issues a request after Connect
C4_Witness ==
    /\ last.op \in ClientOps /\ last.client.pre /\ last.conn
    /\ ~last.panic /\ Len(Requests(last.trail)) = 1

\* C5, as stated: a Client operation that is not rejected runs against a
\* manager that has been started.
C5_Original ==
    (last.op \in ClientOps /\ ~last.panic) => last.mgrAt # "idle"

\* C5, amended: a Client operation is rejected (panics) when the Cluster is
\* not connected.  One that is admitted runs against a manager that has been
\* started, or runs while a Connect call is between setting the connected
\* flag (kapi.go:181) and invoking manager.Start (kapi.go:185): in that
\* window, and only there, an operation is admitted while the manager has not
\* been started.
C5_AdmittedAfterFlagSet ==
    (last.op \in ClientOps /\ ~last.panic) =>
        /\ last.conn
        /\ last.mgrAt # "idle" \/ last.starting

\* an operation is admitted before manager.Start was invoked
C5_Witness ==
    /\ last.op \in ClientOps /\ ~last.panic
    /\ last.mgrAt = "idle" /\ last.starting /\ last.startBefore = 0
    /\ Len(Requests(last.trail)) = 1

\* C6, as stated: of two Connect calls on one Cluster at most one goes past
\* the check, so manager.Start is invoked at most once.
C6_AtLeastOnePanics ==
    /\ Cardinality(PassedCheck) <= 1
    /\ startCount <= 1

\* the filter of reconciler i returns false for watch event ev
FilterRejects(i, ev) ==
    ~ReconcilerFilterFunc(recs[i].filter, ev.et, ev.key, ShownObject(ev))

C7_State ==
    \A i \in 1 .. Len(recs) :
        /\ cbKeys[i] \subseteq admitted[i]
        /\ queue[i] \subseteq admitted[i]
        /\ recs[i].filter = "createdTestData" =>
               \A k \in cbKeys[i] \cup queue[i] : k[2] = "test-data"

\* C7: the delivery of an event for which a reconciler's filter returns
\* false leaves that reconciler's work queue as it was; only keys of events
\* the filter admitted are queued or reach the callback; and with the filter
\* that admits created events of "test-data" the callback is never invoked
\* for another name.
C7_FilteredNeverReconciled ==
    /\ []C7_State
    /\ [][(watch # <<>> /\ Len(watch') < Len(watch)) =>
             \A i \in 1 .. Len(recs) :
                 FilterRejects(i, Head(watch)) => queue'[i] = queue[i]]_vars

\* an event of "other" was dropped after the callback ran for "test-data"
C7_Witness ==
    /\ recs[1].filter = "createdTestData"
    /\ cbKeys[1] = {<<TestNamespace, "test-data">>}
    /\ last.op = "Deliver" /\ last.key[2] = "other"
    /\ ~last.shown[1].admit

IsCallback(e) == e = Callback("reconcilerFunc")
\* how often the last call invoked the reconcile callback
CallbacksIn(t) == Len(SelectSeq(t, IsCallback))

\* C8, as stated: every Reconcile the framework makes for an admitted event
\* invokes the callback exactly once, with the fetched resource, whose
\* namespace and name are the request's, or, when the fetch reports
\* not-found, with a zero-valued resource and Deleted.
C8_Original ==
    (last.op = "Reconcile" /\ ~last.panic) =>
        /\ CallbacksIn(last.trail) = 1
        /\ \/ /\ last.fetch = "ok"
              /\ last.res.ns = last.key[1] /\ last.res.name = last.key[2]
           \/ /\ last.fetch = "notfound"
              /\ last.res = ZeroResource
              /\ last.evt = ReconcileEventTypeDeleted

\* C8, amended: Reconcile runs only for keys of events the filter admitted (a
\* nil filter admits every event) and invokes the callback at most once: once
\* with the fetched resource, which is what the cache held for the request's
\* namespace and name when the fetch was made, when the fetch succeeds; once
\* with a zero-valued resource and Deleted when the fetch reports not-found;
\* and not at all when the fetch fails with another error.  With a
\* created-only filter, a Reconcile whose fetch succeeds invokes the callback
\* once with CreatedOrUpdated.
C8_CallbackOncePerReconcile ==
    /\ []((last.op = "Reconcile" /\ ~last.panic) =>
            /\ last.key \in admitted[last.rec]
            /\ CallbacksIn(last.trail) = last.cb
            /\ last.fetch = "error" => last.cb = 0
            /\ last.fetch = "ok" =>
                  /\ last.cb = 1
                  /\ last.res.ns = last.key[1] /\ last.res.name = last.key[2]
                  /\ last.evt = ReconcileEventTypeCreatedOrUpdated
            /\ last.fetch = "notfound" =>
                  /\ last.cb = 1
                  /\ last.res = ZeroResource
                  /\ last.evt = ReconcileEventTypeDeleted)
    /\ [][\A i \in 1 .. Len(recs) :
             /\ (running[i] = Idle /\ running'[i] # Idle) =>
                    /\ running'[i].key \in admitted[i]
                    /\ running'[i].fetch = "ok" =>
                           running'[i].res =
                               Resource(running'[i].key, cache[running'[i].key])
             /\ (running[i] # Idle /\ running'[i] # running[i]) =>
                    /\ running[i].at = 1 =>
                           /\ running'[i].at = 2 /\ running'[i].cb = 1
                           /\ running'[i].res = running[i].res
                           /\ running'[i].evt = running[i].evt
                    /\ running[i].at = 2 =>
                           /\ running'[i] = Idle
                           /\ last'.res = running[i].res
                           /\ last'.evt = running[i].evt
                           /\ last'.key = running[i].key]_vars

\* the created-only filter admitted "test-data" and the callback ran once,
\* with the object's payload and CreatedOrUpdated
C8_Witness ==
    /\ recs[1].filter = "createdTestData"
    /\ last.op = "Reconcile" /\ last.fetch = "ok" /\ last.cb = 1
    /\ last.res = [ns |-> TestNamespace, name |-> "test-data", data |-> "x",
                   status |-> ""]
    /\ last.evt = ReconcileEventTypeCreatedOrUpdated

\* C9: the classification given to the callback is Deleted exactly when the
\* fetch reports not-found, that is when the cache does not hold the object
\* as Reconcile fetches it, and CreatedOrUpdated exactly when the fetch
\* succeeds; with Deleted the resource is the zero value.
C9_Classification ==
    /\ []((last.op = "Reconcile" /\ last.cb = 1) =>
            /\ last.evt = ReconcileEventTypeDeleted <=> last.fetch = "notfound"
            /\ last.evt = ReconcileEventTypeCreatedOrUpdated <=> last.fetch = "ok"
            /\ last.evt = ReconcileEventTypeDeleted => last.res = ZeroResource)
    /\ [][\A i \in 1 .. Len(recs) :
             (running[i] = Idle /\ running'[i] # Idle) =>
                 LET held == cache[running'[i].key].exists
                 IN  /\ running'[i].fetch = "notfound" <=> ~held
                     /\ running'[i].evt = ReconcileEventTypeDeleted <=> ~held
                     /\ running'[i].evt = ReconcileEventTypeCreatedOrUpdated
                            <=> held]_vars

\* under a filter that admits created events only, the callback is given
\* Deleted
C9_Witness ==
    /\ recs[1].filter = "createdTestData"
    /\ last.op = "Reconcile" /\ last.cb = 1
    /\ last.evt = ReconcileEventTypeDeleted

IsErrorLog(e) == e.k = "log" /\ e.level = LevelError

\* C10: a Reconcile whose fetch fails with an error other than not-found
\* logs at error level, returns that error unwrapped and does not invoke the
\* callback.
C10_FetchErrorReturned ==
    (last.op = "Reconcile" /\ last.fetch = "error") =>
        /\ last.err = "error"
        /\ last.cb = 0
        /\ CallbacksIn(last.trail) = 0
        /\ Len(SelectSeq(last.trail, IsErrorLog)) = 1

\* a Reconcile ended on a fetch error for a key whose callback never ran
C10_Witness ==
    /\ last.op = "Reconcile" /\ last.fetch = "error" /\ last.err = "error"
    /\ cbKeys[last.rec] = {}

IsCallbackErrorLog(e) ==
    e = Log(LevelError, "kapi.reconciler unable to invoke reconciler-func")

\* C11: a Reconcile whose callback returns an error logs it once at error
\* level and returns a wrapped error, and the framework puts the request
\* back on the work queue; one whose callback returns nil logs no error,
\* returns nil with an empty result, and the work queue stays as it was.
C11_CallbackErrorWrapped ==
    /\ []((last.op = "Reconcile" /\ last.cb = 1) =>
            /\ ~last.requeue
            /\ last.cbErr =>
                  /\ last.err = "wrapped"
                  /\ Len(SelectSeq(last.trail, IsCallbackErrorLog)) = 1
            /\ ~last.cbErr =>
                  /\ last.err = "nil"
                  /\ Len(SelectSeq(last.trail, IsErrorLog)) = 0)
    /\ [][\A i \in 1 .. Len(recs) :
             (running[i] # Idle /\ running[i].at = 2 /\ running'[i] = Idle) =>
                 /\ last'.err = "wrapped" =>
                        queue'[i] = queue[i] \cup {running[i].key}
                 /\ last'.err = "nil" => queue'[i] = queue[i]]_vars

\* the callback failed on a Deleted classification and the request stayed
\* queued
C11_Witness ==
    /\ last.op = "Reconcile" /\ last.cbErr /\ last.err = "wrapped"
    /\ last.key \in queue[last.rec]
    /\ last.fetch = "notfound"

\* the requests the last call issued
LastRequests == Requests(last.trail)
\* the subresource-scoped requests an Update with names subs issues when
\* it stops after n of them
SubRequests(subs, n) == [i \in 1 .. n |-> Request("update", subs[i])]

\* C12: an Update with no subresource names issues one full-object update
\* request and nothing else; one with names issues no full-object request
\* but subresource-scoped requests, one per name in the order given.  When
\* the server refuses a request (it is unreachable, the object does not
\* exist, the type has no such subresource) the call returns the wrapped
\* error at once, leaves the store as the requests before left it and
\* attempts no further name; a request that is not refused writes the
\* status, and the call returns nil after the last name.
C12_UpdateRequests ==
    /\ []((last.op = "Update" /\ LastRequests # <<>>) =>
            /\ last.subs = <<>> => LastRequests = <<Request("update", "")>>
            /\ last.subs # <<>> =>
                  /\ last.at \in 1 .. Len(last.subs)
                  /\ LastRequests = SubRequests(last.subs, last.at)
                  /\ last.err \in {"nil", "wrapped"}
                  /\ last.err = "nil" => last.at = Len(last.subs))
    /\ [][LET cur == IF updating' # Idle THEN updating' ELSE last'
              i == cur.at
              k == cur.key
          IN  (/\ updating' # updating \/ last' # last
               /\ cur.op = "Update" /\ cur.subs # <<>>
               /\ i = (IF updating # Idle THEN updating.at ELSE 0) + 1) =>
                  IF \/ i = cur.failAt
                     \/ ~store[k].exists
                     \/ cur.subs[i] # SubresourceStatus
                  THEN /\ store' = store
                       /\ updating' = Idle
                       /\ last'.err = "wrapped" /\ last'.at = i
                  ELSE /\ store' = [store EXCEPT ![k].status = cur.status]
                       /\ i = Len(cur.subs) =>
                              updating' = Idle /\ last'.err = "nil"
                       /\ i < Len(cur.subs) => updating' = cur]_vars

\* an Update with the names status, status wrote the status; the object was
\* deleted before the second request, which was refused; the call returned
\* the wrapped error
C12_Witness ==
    /\ last.op = "Update" /\ last.err = "wrapped"
    /\ last.subs = <<SubresourceStatus, SubresourceStatus>>
    /\ last.at = 2 /\ last.failAt = 0
    /\ Len(LastRequests) = 2
    /\ ~store[last.key].exists

\* the recordings of the client timer metric in a call's trail
IsClientTimer(e) == e.k = "timerStop" /\ e.tag = "kapi_client"
ClientTimers(t) == SelectSeq(t, IsClientTimer)

\* C13: every Client operation records the client timer metric exactly once,
\* labelled with the item's type name and the operation's action name,
\* whether it returns nil, returns an error or is rejected.
C13_TimerOncePerOperation ==
    last.op \in ClientOps =>
        /\ Len(ClientTimers(last.trail)) = 1
        /\ ClientTimers(last.trail)[1].rtype = ItemType
        /\ ClientTimers(last.trail)[1].act = ActionOf[last.op]

\* a List that failed at the server recorded the metric
C13_Witness ==
    /\ last.op = "List" /\ last.err = "error" /\ ~last.panic
    /\ Len(LastRequests) = 1
    /\ Len(ClientTimers(last.trail)) = 1

\* positions in the last call's trail
SummaryAt == {i \in DOMAIN last.trail : last.trail[i].tag = "kapi_client_summary"}
TraceAt == {i \in DOMAIN last.trail : last.trail[i].tag = "kapi_client_trace"}
TimerStopAt == {i \in DOMAIN last.trail : IsClientTimer(last.trail[i])}
RequestAt == {i \in DOMAIN last.trail : IsRequest(last.trail[i])}
\* the last Client operation returned nil
Succeeded == ~last.panic /\ last.err = "nil"

\* C14, as stated: the summary log precedes the store call, and the trace
\* log is emitted only when the operation succeeds and only after the timer
\* has been stopped.
C14_Original ==
    last.op \in ClientOps =>
        /\ \A i \in SummaryAt, j \in RequestAt : i < j
        /\ TraceAt # {} => Succeeded
        /\ \A i \in TraceAt, j \in TimerStopAt : j < i

\* C14, amended: for every Client operation the summary log is emitted once,
\* before any store request; the trace log is emitted once in every
\* operation, whether it succeeds, fails or is rejected, after the store
\* requests and immediately before the timer is stopped.
C14_TraceThenTimerStop ==
    last.op \in ClientOps =>
        /\ Cardinality(SummaryAt) = 1 /\ Cardinality(TraceAt) = 1
        /\ \A i \in SummaryAt, j \in RequestAt : i < j
        /\ \A i \in TraceAt, j \in RequestAt : j < i
        /\ \A i \in TraceAt : i + 1 \in TimerStopAt
        /\ \A i \in TraceAt : last.trail[i].act = ActionOf[last.op]

\* a Get that found nothing emitted the trace log, then stopped the timer
C14_Witness ==
    /\ last.op = "Get" /\ last.err = "notfound"
    /\ Len(LastRequests) = 1
    /\ \E i \in TraceAt : i + 1 \in TimerStopAt /\ i + 1 = Len(last.trail)

HookOps == {"Default", "ValidateCreate", "ValidateUpdate", "ValidateDelete"}
\* the callback invocations in the last call's trail
LastCallbacks == SelectSeq(last.trail, LAMBDA e : e.k = "callback")

\* C15: an entry point whose callback is unset is a no-op for an object of
\* any type: it returns nil and no warnings, invokes nothing and leaves the
\* object as it was.
C15_UnsetCallbackNoOp ==
    (last.op \in HookOps /\ ~last.set) =>
        /\ last.err = "nil" /\ ~last.panic
        /\ last.warnings = <<>>
        /\ last.res = last.obj
        /\ last.cb = 0 /\ LastCallbacks = <<>>

\* Default, unset in a hook that sets another callback, was given an object
\* of another type and one the defaulter would have changed
C15_Witness ==
    /\ hooks = <<"validateCreate">>
    /\ last.op = "Default" /\ ~last.set /\ ~last.okNew
    /\ last.obj.data = "" /\ last.err = "nil"

\* C16: an entry point whose callback is set and that is given an object of
\* another type returns an error, does not panic and does not invoke the
\* callback; ValidateUpdate returns that one error whether the old object,
\* the new object or both are of another type, and the callback is invoked
\* exactly when every object is of the hook's type.
C16_TypeMismatchIsError ==
    (last.op \in HookOps /\ last.set) =>
        /\ (~last.okNew \/ ~last.okOld) =>
              /\ last.err = "typeerror" /\ ~last.panic
              /\ last.warnings = <<>>
              /\ last.cb = 0 /\ LastCallbacks = <<>>
        /\ (last.okNew /\ last.okOld) =>
              last.cb = 1 /\ Len(LastCallbacks) = 1

\* ValidateUpdate was given an old object of another type and a new object
\* of the hook's type
C16_Witness ==
    /\ last.op = "ValidateUpdate" /\ last.set
    /\ last.okNew /\ ~last.okOld
    /\ last.err = "typeerror" /\ last.cb = 0

\* what Hook.observe leaves in a trail
HookLogs(t, tag) == SelectSeq(t, LAMBDA e : e.k = "log" /\ e.tag = tag)
HookTimers(t) == SelectSeq(t, LAMBDA e : e.k = "timerStop" /\ e.tag = "kapi_hook")
HookActionOf ==
    [Default |-> "default", ValidateCreate |-> "create",
     ValidateUpdate |-> "update", ValidateDelete |-> "delete"]
Observed ==
    /\ Len(HookLogs(last.trail, "kapi_hook_summary")) = 1
    /\ Len(HookLogs(last.trail, "kapi_hook_trace")) = 1
    /\ Len(HookTimers(last.trail)) = 1
    /\ HookTimers(last.trail)[1].rtype = HookType
    /\ HookTimers(last.trail)[1].act = HookActionOf[last.op]

\* C17, as stated: every invocation of a hook entry point emits the summary
\* log and the trace log and records one timer metric labelled by resource
\* type and action.
C17_Original == last.op \in HookOps => Observed

\* C17, amended: an invocation of a hook entry point whose callback is set
\* emits the summary log and the trace log, both before the callback runs,
\* and records one timer metric labelled by resource type and action as it
\* returns, whether the callback ran, failed or was not reached because of
\* a type mismatch; an invocation whose callback is unset emits no log and
\* records no metric.
C17_ObservedWhenSet ==
    last.op \in HookOps =>
        /\ last.set =>
              /\ Observed
              /\ last.trail[2].tag = "kapi_hook_summary"
              /\ last.trail[3].tag = "kapi_hook_trace"
              /\ last.trail[Len(last.trail)].k = "timerStop"
        /\ ~last.set => last.trail = <<>>

\* an entry point that returned the type error logged and recorded the
\* metric
C17_Witness ==
    /\ last.op = "ValidateDelete" /\ last.set /\ ~last.okNew
    /\ last.err = "typeerror" /\ Observed

\* C18: with the hook that sets only ValidateCreateFunc, which rejects an
\* object whose data is empty: a create of such an object is denied and the
\* store never holds one; a create of an object with data is not denied
\* and, when it succeeds, is persisted with that data; and ValidateCreate
\* returns the warnings and the error of the callback.
C18_ValidateCreateGuardsStore ==
    hooks = <<"validateCreate">> =>
        /\ \A k \in Keys : store[k].exists => store[k].data # ""
        /\ (last.op = "Create" /\ ~last.panic /\ last.data = "") =>
              last.err \in {"denied", "error"}
        /\ (last.op = "Create" /\ ~last.panic /\ last.data # "") =>
              /\ last.err # "denied"
              /\ last.err = "nil" => store[last.key] = Obj(last.data, "")
        /\ (last.op = "ValidateCreate" /\ last.okNew) =>
              /\ last.cb = 1
              /\ last.warnings = ValidateCreateFunc("validateCreate", last.obj).warnings
              /\ last.err = ValidateCreateFunc("validateCreate", last.obj).err

\* a create of an object without data was denied after one with data was
\* persisted
C18_Witness ==
    /\ hooks = <<"validateCreate">>
    /\ last.op = "Create" /\ last.data = "" /\ last.err = "denied"
    /\ ~store[last.key].exists
    /\ \E k \in Keys : store[k] = Obj("x", "")

\* the items of the last List that carry key k
ItemsWith(k) ==
    {i \in DOMAIN last.items : last.items[i].ns = k[1] /\ last.items[i].name = k[2]}

\* C19: reads of a Client derived with caching disabled reflect the write
\* the same Client completed just before: a Get that follows a successful
\* Create or full Update of its key returns the payload written, unless the
\* read itself fails; a List that follows a successful Create holds the
\* created object exactly once, with its payload; and a List that follows
\* a successful Delete holds one item less than the List before the Delete.
C19_DirectReadsSeeWrites ==
    /\ (last.op = "Get" /\ last.before.op \in {"Create", "Update"}
           /\ last.before.full /\ last.before.key = last.key
           /\ last.err # "error") =>
          /\ last.err = "nil"
          /\ last.result.ns = last.key[1] /\ last.result.name = last.key[2]
          /\ last.result.data = last.before.data
    /\ (last.op = "List" /\ last.before.op = "Create" /\ last.err = "nil") =>
          /\ Cardinality(ItemsWith(last.before.key)) = 1
          /\ \A i \in ItemsWith(last.before.key) :
                last.items[i].data = last.before.data
    /\ (last.op = "List" /\ last.before.op = "Delete" /\ last.before.n >= 0
           /\ last.err = "nil") =>
          Len(last.items) = last.before.n - 1

\* a List of two items, a Delete, and a List of one item
C19_Witness ==
    /\ last.op = "List" /\ ~last.client.cache /\ last.err = "nil"
    /\ last.before.op = "Delete" /\ last.before.n = 2
    /\ Len(last.items) = 1

C20_State ==
    /\ (last.op = "Get" /\ ~last.panic /\ LastRequests # <<>>) =>
          /\ last.err # "nil" => last.result = ZeroResource
          /\ (~last.client.cache /\ last.failAt = 0) =>
                /\ last.err = "notfound" <=> ~store[last.key].exists
                /\ last.err = "nil" <=> store[last.key].exists
          /\ last.failAt # 0 => last.err = "error"
    /\ (last.op = "List" /\ last.before.op = "Get" /\ last.before.n >= 0
           /\ last.err = "nil") =>
          Len(last.items) = last.before.n

\* C20: a Get of a namespace and name the store does not hold returns the
\* not-found error, which differs from the error of a read that failed,
\* and a zero-valued item; Get and List leave the store, the count of
\* writes and the watch events as they were; and a List that follows a Get
\* that found nothing holds as many items as the List before that Get.
C20_GetNotFound ==
    /\ []C20_State
    /\ [][(last' # last /\ last'.op \in {"Get", "List"}) =>
             (store' = store /\ nwrites' = nwrites /\ watch' = watch)]_vars

\* a List of one item, a Get of the other name that found nothing, and a
\* List of one item
C20_Witness ==
    /\ last.op = "List" /\ last.err = "nil"
    /\ last.before.op = "Get" /\ last.before.err = "notfound"
    /\ last.before.n = 1 /\ Len(last.items) = 1

\* the Connect calls that are inside manager.Start
Blocking == {g \in Procs : pc[g] = "blocking"}

C21_State ==
    /\ Blocking # {} => mgr = "running" /\ Cardinality(Blocking) = 1
    /\ mgr = "stopped" =>
          cancelled /\ Cardinality({g \in Procs : pc[g] = "retNil"}) = 1
    /\ mgr = "failed" =>
          /\ \E g \in Procs : pc[g] = "retErr"
          /\ \A g \in Procs : pc[g] # "retNil"
    /\ (\E g \in Procs : pc[g] = "retNil") => mgr = "stopped"

\* C21: a Connect call is inside manager.Start only while the manager runs;
\* once the context is cancelled a blocked call eventually returns; it
\* returns nil only after cancellation and when Start returned nil, and a
\* wrapped error when Start returned an error; and the manager stops running
\* only in the step in which the blocked Connect call returns.
C21_ConnectReturns ==
    /\ []C21_State
    /\ \A g \in Procs :
          (cancelled /\ pc[g] = "blocking") ~> (pc[g] \in {"retNil", "retErr"})
    /\ [][(mgr = "running" /\ mgr' # "running") =>
             \E g \in Procs :
                 /\ pc[g] = "blocking"
                 /\ pc'[g] = (IF mgr' = "stopped" THEN "retNil" ELSE "retErr")
                 /\ last' = last]_vars

\* Connect returned nil after the context was cancelled, and a Client
\* operation ran while the call was blocked
C21_Witness ==
    /\ cancelled /\ mgr = "stopped"
    /\ \E g \in Procs : pc[g] = "retNil"
    /\ last.op = "Get" /\ ~last.panic /\ last.mgrAt = "running"

\* the manager was constructed by the last call: ctrl.NewManager was invoked
ManagerConstructed == \E i \in DOMAIN last.trail : last.trail[i] = Callback("NewManager")

\* C22: with leader election enabled NewCluster panics when the
\* lock-resource name is empty; otherwise the manager gets the explicit
\* leader-election namespace when one is given, else the first configured
\* namespace, and NewCluster panics when there is neither; with leader
\* election disabled it never panics and passes the configured values on
\* as they are.  A call that panics does not construct the manager.
C22_LeaderElectionConfig ==
    last.op = "NewCluster" =>
        LET cfg == last.cfg
        IN  /\ last.panic <=>
                  /\ cfg.Enabled
                  /\ \/ cfg.LockResource = ""
                     \/ cfg.Namespace = "" /\ cfg.Namespaces = <<>>
            /\ last.panic => ~ManagerConstructed /\ ~last.built
            /\ ~last.panic =>
                  /\ ManagerConstructed /\ last.built
                  /\ last.opts.LeaderElection = cfg.Enabled
                  /\ last.opts.LeaderElectionID = cfg.LockResource
                  /\ cfg.Namespace # "" =>
                        last.opts.LeaderElectionNamespace = cfg.Namespace
                  /\ (cfg.Enabled /\ cfg.Namespace = "") =>
                        last.opts.LeaderElectionNamespace = cfg.Namespaces[1]
                  /\ (~cfg.Enabled /\ cfg.Namespace = "") =>
                        last.opts.LeaderElectionNamespace = ""

\* leader election is enabled with an explicit namespace that differs from
\* the first configured namespace, and the manager is constructed with it
C22_Witness ==
    /\ last.op = "NewCluster" /\ ~last.panic /\ last.built
    /\ last.cfg.Enabled /\ last.cfg.Namespace = "kube-system"
    /\ Len(last.cfg.Namespaces) = 2 /\ last.cfg.Namespaces[1] = "kapi-test"
    /\ last.opts.LeaderElectionNamespace = "kube-system"

\* the fields of an ObservabilityConfig other than the log function
PlainFields == {"BackgroundContext", "MetricTimerFunc", "NewCorrelationCtx"}
\* some field of cfg is nil
SomeNil(cfg) == cfg.LogFunc.fn = "nil" \/ \E f \in PlainFields : cfg[f] = "nil"

\* C23: Init panics exactly when one of the four fields of the contract it
\* is given is nil, and then the stored contract and the logger handed to
\* the framework are what they were before the call; given all four it does
\* not panic, stores the contract (its log function wrapped) and hands the
\* framework a logger on the contract's background context and log function.
C23_InitValidates ==
    last.op = "Init" =>
        LET cfg == last.obsCfg
        IN  /\ last.panic <=> SomeNil(cfg)
            /\ last.panic => obs = last.obsAt /\ logger = last.loggerAt
            /\ ~last.panic =>
                  /\ \A f \in PlainFields : obs[f] = cfg[f]
                  /\ obs.LogFunc.fn = cfg.LogFunc.fn /\ obs.LogFunc.lib
                  /\ logger.ctx = cfg.BackgroundContext
                  /\ logger.lf = obs.LogFunc

\* Init, given a contract that lacks only the correlation-context
\* constructor, panics on a process that holds a stored contract
C23_Witness ==
    /\ last.op = "Init" /\ last.panic
    /\ last.obsCfg.LogFunc.fn = "logB"
    /\ last.obsCfg.NewCorrelationCtx = "nil"
    /\ \A f \in PlainFields \ {"NewCorrelationCtx"} : last.obsCfg[f] # "nil"
    /\ last.obsAt = StoredContract(TestObservabilityConfig)
    /\ obs = last.obsAt

\* C24, as stated: once Init has stored a contract, no step changes it, a
\* further Init call included.
C24_WrittenOnce == [][obs # NoObs => obs' = obs]_vars

MutationOps == {"SetName", "SetLabel", "SetPayload", "SetItem"}

\* C25: a mutation of one of the three values (the original and the two
\* values DeepCopyObject returned for it), in its metadata, a payload field
\* or a list item, leaves the values of the other two as they were; and no
\* two of the three share a map, a pointee or a slice.
C25_CopiesIndependent ==
    /\ [](\A i \in 1 .. 3, j \in 1 .. 3 :
            i # j =>
                LET Refs(e) == {e.labels, e.spec.ref, e.status.ref, e.scale.ref,
                                e.items} \ {0}
                IN  Refs(envs[i]) \cap Refs(envs[j]) = {})
    /\ [][\A i \in 1 .. 3 :
             (last' # last /\ last'.op \in MutationOps /\ last'.target = i) =>
                 \A j \in (1 .. 3) \ {i} :
                     ValueOf(cells', envs'[j]) = ValueOf(cells, envs[j])]_vars

\* a label of the second copy was changed while the original and the first
\* copy, made of an envelope with labels and a pointer payload, keep theirs
C25_Witness ==
    /\ last.op = "SetLabel" /\ last.target = 3
    /\ ~envs[1].nil /\ ~envs[2].nil /\ ~envs[3].nil
    /\ envs[1].spec.kind = "pointer" /\ envs[1].spec.ref # 0
    /\ ValueOf(cells, envs[3]).labels = "b"
    /\ ValueOf(cells, envs[1]).labels = "a"
    /\ ValueOf(cells, envs[2]).labels = "a"

\* C26, as stated: the value DeepCopyObject returns for an envelope is of
\* the envelope's type and equal to it in every field, a payload field of
\* the undefined kind stays nil, and the copy of a nil envelope is nil.
C26_RoundTrip ==
    last.op = "DeepCopyObject" =>
        LET o == envs[1]
            c == envs[last.target]
        IN  /\ c.nil <=> o.nil
            /\ ~o.nil =>
                  /\ TypeOf(c) = TypeOf(o)
                  /\ ValueOf(cells, c) = ValueOf(cells, o)
                  /\ \A f \in PayloadFields :
                        o[f].kind = "undefined" => c[f] = Undefined

\* C27, as stated: a derivation with WithValues or WithName adds a sink that
\* holds the parent's attribute pairs followed by the new ones, and leaves
\* the logger and every sink derived before, the new sink's siblings
\* included, with the attribute pairs they held.
C27_CopyOnDerive ==
    [][wrappers' # wrappers =>
          LET n == Len(wrappers')
              parent == IF last'.target = 0 THEN logger
                        ELSE wrappers[last'.target]
          IN  /\ n = Len(wrappers) + 1
              /\ Elements(arrays', wrappers'[n].attrs) =
                     Elements(arrays, parent.attrs) \o last'.attr
              /\ logger' = logger
              /\ \A i \in 1 .. Len(wrappers) :
                     /\ wrappers'[i] = wrappers[i]
                     /\ Elements(arrays', wrappers'[i].attrs) =
                            Elements(arrays, wrappers[i].attrs)]_vars

\* C28, as stated: the log function receives, from an Info or Error call on
\* a derived sink, the attribute pairs the sink holds, the pairs of the
\* call, the pair "dep", "ctrl-runtime" and, from Error, the pair "error",
\* err.
C28_AccumulatedPassed ==
    (last.op \in {"Info", "Error"} /\ last.target >= 1) =>
        LET Pairs(sq) == {<<sq[2 * i - 1], sq[2 * i]>> : i \in 1 .. Len(sq) \div 2}
            held == Elements(arrays, wrappers[last.target].attrs)
        IN  /\ Pairs(held) \subseteq Pairs(last.received)
            /\ Pairs(last.attr) \subseteq Pairs(last.received)
            /\ <<"dep", "ctrl-runtime">> \in Pairs(last.received)
            /\ last.op = "Error" => <<"error", "err">> \in Pairs(last.received)

\* C29: the delivery of a watch event invokes each reconciler's filter once,
\* with the event's classification; for an update event with the object as
\* it was before the update, so that the filter's decision is the one it
\* takes on the pre-update content; for a create event with the created
\* object and for a delete event with the deleted object.
C29_FilterSeesOldObject ==
    [][(watch # <<>> /\ watch' = Tail(watch)) =>
          LET ev == Head(watch)
              own == IF ev.et = ResourceEventTypeCreated THEN ev.new ELSE ev.old
          IN  /\ last'.op = "Deliver"
              /\ Len(last'.shown) = Len(recs)
              /\ \A i \in 1 .. Len(recs) :
                     /\ last'.shown[i].et = ev.et
                     /\ ev.et = ResourceEventTypeUpdated =>
                            last'.shown[i].obj = ev.old
                     /\ ev.et # ResourceEventTypeUpdated =>
                            last'.shown[i].obj = own
                     /\ last'.shown[i].admit =
                            ReconcilerFilterFunc(recs[i].filter, ev.et, ev.key,
                                                 IF ev.et = ResourceEventTypeUpdated
                                                 THEN ev.old ELSE own)]_vars

\* the filter that admits objects holding "x" admitted an update event of
\* an object that held "x" before the update and holds something else after
C29_Witness ==
    /\ last.op = "Deliver"
    /\ recs[1].filter = "dataX"
    /\ last.shown[1].et = ResourceEventTypeUpdated
    /\ last.shown[1].obj.data = "x"
    /\ cache[last.key].exists /\ cache[last.key].data # "x"
    /\ last.shown[1].admit

\* C30, as stated: a registration call on a Cluster that is not connected
\* returns a non-nil error when the framework refuses the registration, be
\* it AddReconciler or AddHook, so that a call that returned nil made its
\* registration.
C30_RegistrationFailureReported ==
    (last.op \in RegistrationOps /\ ~last.conn) =>
        /\ ~last.fwOk => last.err # "nil"
        /\ last.err = "nil" => RegisteredByLast = 1
=============================================================================
